---- MODULE Spec2Model ----
(***************************************************************************)
(* HackApp registry/claim engine (src/main.py): the HackAppEngine state,   *)
(* its three mutating operations, set_paused and the wall clock that       *)
(* time.time() reads.                                                      *)
(***************************************************************************)
EXTENDS Integers, Sequences, FiniteSets, TLC

\* ------------------------------------------------------------------------
\* Program constants (src/main.py lines 19-25)
\* ------------------------------------------------------------------------
HAX_MAX_GADGETS == 2048
HAX_QUOTA_PER_USER == 32
HAX_BPS_DENOM == 10000
HAX_OPERATOR_FEE_BPS == 80
HAX_SCORE_BASE == 10
HAX_MIN_CLAIM_INTERVAL_SEC == 60

\* Python integers are unbounded and a wei amount does not fit a machine
\* word: an amount is the sequence of its base-10^4 digits, least significant
\* first, without leading zero digits (zero is << >>).
WeiBase == 10 ^ 4
\* 2000000000000000 = 2000 * (10^4)^3
HAX_FEE_WEI == <<0, 0, 0, 2000>>

\* ------------------------------------------------------------------------
\* Bounds of the model
\* ------------------------------------------------------------------------
\* time.time() is a float: the clock counts ticks of 1/TicksPerSec second
TicksPerSec == 2
\* the clock stops advancing after MaxClockSec seconds
MaxClockSec == 125
\* Spec: registrations are attempted while fewer than MaxReg succeeded, and
\* no claim succeeds after MaxClaims did
MaxReg == 2
MaxClaims == 2

sec(n) == n * TicksPerSec

\* ------------------------------------------------------------------------
\* Unbounded integer arithmetic on wei amounts
\* ------------------------------------------------------------------------
WeiZero == << >>

RECURSIVE WeiAddC(_, _, _)
WeiAddC(a, b, carry) ==
    IF a = << >> /\ b = << >>
    THEN IF carry = 0 THEN << >> ELSE <<carry>>
    ELSE LET x == IF a = << >> THEN 0 ELSE Head(a)
             y == IF b = << >> THEN 0 ELSE Head(b)
             s == x + y + carry
         IN  <<s % WeiBase>> \o
             WeiAddC(IF a = << >> THEN << >> ELSE Tail(a),
                     IF b = << >> THEN << >> ELSE Tail(b),
                     s \div WeiBase)

\* faulty variant of WeiAdd: the carry out of a digit is dropped
WeiAdd_no_carry(a, b) ==
    LET n == IF Len(a) > Len(b) THEN Len(a) ELSE Len(b)
    IN  [i \in 1 .. n |->
            ((IF i <= Len(a) THEN a[i] ELSE 0) +
             (IF i <= Len(b) THEN b[i] ELSE 0)) % WeiBase]

\* a + b
WeiAdd(a, b) == WeiAddC(a, b, 0)

RECURSIVE WeiLessFrom(_, _, _)
WeiLessFrom(a, b, i) ==
    IF i = 0 THEN FALSE
    ELSE IF a[i] # b[i] THEN a[i] < b[i]
    ELSE WeiLessFrom(a, b, i - 1)

\* a < b
WeiLess(a, b) ==
    IF Len(a) # Len(b) THEN Len(a) < Len(b) ELSE WeiLessFrom(a, b, Len(a))

\* ------------------------------------------------------------------------
\* Python dict helpers
\* ------------------------------------------------------------------------
\* d.get(k, default)
Get(d, k, default) == IF k \in DOMAIN d THEN d[k] ELSE default

\* d[k] = v
Put(d, k, v) == (k :> v) @@ d

EmptyDict == << >>

\* ------------------------------------------------------------------------
\* State
\* ------------------------------------------------------------------------
VARIABLES
    paused,                  \* self._paused
    gadget_nonce,            \* self._gadget_nonce
    shortcut_nonce,          \* self._shortcut_nonce
    gadgets,                 \* self._gadgets: gadget id -> HaxGadget
    shortcuts,               \* self._shortcuts: shortcut id -> HaxShortcut
    gadget_ids_by_owner,     \* self._gadget_ids_by_owner: owner -> list of ids
    shortcut_count_by_user,  \* self._shortcut_count_by_user
    efficiency_score,        \* self._efficiency_score
    last_claim_time,         \* self._last_claim_time
    total_fees_wei,          \* self._total_fees_wei
    clock,                   \* what time.time() returns, in ticks
    lastCall,                \* the last engine call: arguments and outcome
    ok_registers,            \* number of register_gadget calls that returned
    ok_claims,               \* number of claim_shortcut calls that returned
    refused,                 \* gadget ids a claim was refused on as inactive
    scenario,                \* which caller drives the engine in this run
    held,                    \* the value the caller keeps from an earlier call
    rl_claims,               \* HaxRateLimiter._claims: user -> admitted times
    admitted                 \* per user, the times of all calls allow admitted

engine == <<paused, gadget_nonce, shortcut_nonce, gadgets, shortcuts,
            gadget_ids_by_owner, shortcut_count_by_user, efficiency_score,
            last_claim_time, total_fees_wei>>

history == <<lastCall, ok_registers, ok_claims>>

\* what lives outside the engine, on the caller's side
caller == <<held, rl_claims, admitted>>

vars == <<engine, clock, history, refused, scenario, caller>>

\* The call record: op, the caller argument (owner or claimer), the
\* gadget_id, fee_wei and active arguments where the operation has them, the
\* exception raised ("ok" when the call returned), the id of the returned
\* record (0 when none), and the clock value the call read first.
Call(op, user, gadget_id, fee_wei, active, error, ret, at) ==
    [op |-> op, user |-> user, gadget_id |-> gadget_id, fee_wei |-> fee_wei,
     active |-> active, error |-> error, ret |-> ret, at |-> at]

NoCall == Call("none", "", 0, WeiZero, FALSE, "ok", 0, 0)

\* ------------------------------------------------------------------------
\* Hash input of a gadget
\* ------------------------------------------------------------------------
Digit(d) == CASE d = 0 -> "0" [] d = 1 -> "1" [] d = 2 -> "2" [] d = 3 -> "3"
              [] d = 4 -> "4" [] d = 5 -> "5" [] d = 6 -> "6" [] d = 7 -> "7"
              [] d = 8 -> "8" [] d = 9 -> "9"

\* str(n) for n >= 0, as a sequence of characters
RECURSIVE str(_)
str(n) == IF n < 10 THEN <<Digit(n)>> ELSE str(n \div 10) \o <<Digit(n % 10)>>

\* hax_hash_gadget(payload): the digest of SEED + "|" + payload; a
\* collision-free digest is represented by its input
hax_hash_gadget(payload) == <<"HAX_DOMAIN_SEED", "|">> \o payload

\* ------------------------------------------------------------------------
\* HackAppEngine.__init__
\* ------------------------------------------------------------------------
InitEngine ==
    /\ paused \in BOOLEAN
    /\ gadget_nonce = 0
    /\ shortcut_nonce = 0
    /\ gadgets = EmptyDict
    /\ shortcuts = EmptyDict
    /\ gadget_ids_by_owner = EmptyDict
    /\ shortcut_count_by_user = EmptyDict
    /\ efficiency_score = EmptyDict
    /\ last_claim_time = EmptyDict
    /\ total_fees_wei = WeiZero

InitHistory ==
    /\ lastCall = NoCall
    /\ ok_registers = 0
    /\ ok_claims = 0

\* the caller holds nothing; HaxRateLimiter.__init__
NoHeld == [kind |-> "none"]

InitCaller ==
    /\ held = NoHeld
    /\ rl_claims = EmptyDict
    /\ admitted = EmptyDict

InitFor(s) ==
    /\ InitEngine
    /\ InitHistory
    /\ clock = 0
    /\ refused = {}
    /\ scenario = s
    /\ InitCaller

Init == InitFor("ops")

\* ------------------------------------------------------------------------
\* register_gadget
\* ------------------------------------------------------------------------
\* fee_wei < HAX_FEE_WEI
fee_too_low(fee_wei) == WeiLess(fee_wei, HAX_FEE_WEI)

\* faulty variant of quota_reached: the comparison is off by one
quota_reached_off_by_one(current) == current > HAX_QUOTA_PER_USER

\* current >= HAX_QUOTA_PER_USER
quota_reached(current) == current >= HAX_QUOTA_PER_USER

\* faulty variant of cap_reached: the comparison is off by one
cap_reached_off_by_one(nonce) == nonce > HAX_MAX_GADGETS

\* self._gadget_nonce >= HAX_MAX_GADGETS
cap_reached(nonce) == nonce >= HAX_MAX_GADGETS

\* faulty variant of register_error: the global cap is checked before the
\* owner's quota
register_error_cap_first(owner, fee_wei) ==
    IF paused THEN "Paused"
    ELSE IF fee_too_low(fee_wei) THEN "FeeRequired"
    ELSE IF cap_reached(gadget_nonce) THEN "InvalidGadgetId"
    ELSE IF quota_reached(Len(Get(gadget_ids_by_owner, owner, << >>)))
         THEN "QuotaExceeded"
    ELSE "ok"

\* the exception register_gadget raises, "ok" when none
register_error(owner, fee_wei) ==
    IF paused THEN "Paused"
    ELSE IF fee_too_low(fee_wei) THEN "FeeRequired"
    ELSE IF quota_reached(Len(Get(gadget_ids_by_owner, owner, << >>)))
         THEN "QuotaExceeded"
    ELSE IF cap_reached(gadget_nonce) THEN "InvalidGadgetId"
    ELSE "ok"

\* faulty variant of next_gadget_id: the id is taken from the number of
\* active gadgets instead of the counter
next_gadget_id_live_count(nonce) ==
    Cardinality({g \in DOMAIN gadgets : gadgets[g].active}) + 1

\* self._gadget_nonce += 1; gid = self._gadget_nonce
next_gadget_id(nonce) == nonce + 1

HaxGadget(gid, owner, gh, category, now) ==
    [gadget_id |-> gid, owner |-> owner, gadget_hash |-> gh,
     category |-> category, registered_at |-> now, active |-> TRUE,
     claim_count |-> 0]

\* faulty variant of RegisterGadget: the new id is put at the front of the
\* owner's list
RegisterGadget_Prepend(owner, payload, category, fee_wei) ==
    LET err == register_error(owner, fee_wei)
        gid == next_gadget_id(gadget_nonce)
        gh  == hax_hash_gadget(payload \o str(gid))
        g   == HaxGadget(gid, owner, gh, category, clock)
    IN  /\ lastCall = NoCall
        /\ IF err # "ok"
           THEN /\ lastCall' = Call("register_gadget", owner, 0, fee_wei, FALSE,
                                    err, 0, clock)
                /\ UNCHANGED <<engine, clock, ok_registers, ok_claims>>
           ELSE /\ gadget_nonce' = gid
                /\ gadgets' = Put(gadgets, gid, g)
                /\ gadget_ids_by_owner' =
                       Put(gadget_ids_by_owner, owner,
                           <<gid>> \o Get(gadget_ids_by_owner, owner, << >>))
                /\ total_fees_wei' = WeiAdd(total_fees_wei, fee_wei)
                /\ lastCall' = Call("register_gadget", owner, 0, fee_wei, FALSE,
                                    "ok", gid, clock)
                /\ ok_registers' = ok_registers + 1
                /\ UNCHANGED <<paused, shortcut_nonce, shortcuts,
                               shortcut_count_by_user, efficiency_score,
                               last_claim_time, clock, ok_claims>>

RegisterGadget(owner, payload, category, fee_wei) ==
    LET err == register_error(owner, fee_wei)
        gid == next_gadget_id(gadget_nonce)
        gh  == hax_hash_gadget(payload \o str(gid))
        g   == HaxGadget(gid, owner, gh, category, clock)
    IN  /\ lastCall = NoCall
        /\ IF err # "ok"
           THEN /\ lastCall' = Call("register_gadget", owner, 0, fee_wei, FALSE,
                                    err, 0, clock)
                /\ UNCHANGED <<engine, clock, ok_registers, ok_claims>>
           ELSE /\ gadget_nonce' = gid
                /\ gadgets' = Put(gadgets, gid, g)
                /\ gadget_ids_by_owner' =
                       Put(gadget_ids_by_owner, owner,
                           Append(Get(gadget_ids_by_owner, owner, << >>), gid))
                /\ total_fees_wei' = WeiAdd(total_fees_wei, fee_wei)
                /\ lastCall' = Call("register_gadget", owner, 0, fee_wei, FALSE,
                                    "ok", gid, clock)
                /\ ok_registers' = ok_registers + 1
                /\ UNCHANGED <<paused, shortcut_nonce, shortcuts,
                               shortcut_count_by_user, efficiency_score,
                               last_claim_time, clock, ok_claims>>

\* ------------------------------------------------------------------------
\* claim_shortcut
\* ------------------------------------------------------------------------
\* time.time() < last + HAX_MIN_CLAIM_INTERVAL_SEC
claim_too_soon(now, last) == now < last + sec(HAX_MIN_CLAIM_INTERVAL_SEC)

\* faulty variant of claim_error: the cooldown is measured from the
\* claimer's last claim of the same gadget
claim_error_per_gadget(gadget_id, claimer, now) ==
    LET mine == {s \in DOMAIN shortcuts :
                    /\ shortcuts[s].claimer = claimer
                    /\ shortcuts[s].gadget_id = gadget_id}
        last == IF mine = {} THEN 0
                ELSE shortcuts[CHOOSE s \in mine : \A r \in mine : r <= s].claimed_at
    IN  IF paused THEN "Paused"
        ELSE IF gadget_id \notin DOMAIN gadgets THEN "InvalidGadgetId"
        ELSE IF ~gadgets[gadget_id].active THEN "GadgetInactive"
        ELSE IF claim_too_soon(now, last) THEN "ClaimTooSoon"
        ELSE "ok"

\* faulty variant of claim_error: the cooldown is checked before the
\* gadget is looked up
claim_error_cooldown_first(gadget_id, claimer, now) ==
    IF paused THEN "Paused"
    ELSE IF claim_too_soon(now, Get(last_claim_time, claimer, 0))
         THEN "ClaimTooSoon"
    ELSE IF gadget_id \notin DOMAIN gadgets THEN "InvalidGadgetId"
    ELSE IF ~gadgets[gadget_id].active THEN "GadgetInactive"
    ELSE "ok"

\* faulty variant of claim_error: the active flag is not checked
claim_error_no_active_check(gadget_id, claimer, now) ==
    IF paused THEN "Paused"
    ELSE IF gadget_id \notin DOMAIN gadgets THEN "InvalidGadgetId"
    ELSE IF claim_too_soon(now, Get(last_claim_time, claimer, 0))
         THEN "ClaimTooSoon"
    ELSE "ok"

\* the exception claim_shortcut raises when its cooldown check reads the
\* clock at now, "ok" when none
claim_error(gadget_id, claimer, now) ==
    IF paused THEN "Paused"
    ELSE IF gadget_id \notin DOMAIN gadgets THEN "InvalidGadgetId"
    ELSE IF ~gadgets[gadget_id].active THEN "GadgetInactive"
    ELSE IF claim_too_soon(now, Get(last_claim_time, claimer, 0))
         THEN "ClaimTooSoon"
    ELSE "ok"

\* faulty variant of next_shortcut_id: shortcuts draw their ids from the
\* space of the gadget ids
next_shortcut_id_shared(nonce) ==
    (IF nonce > gadget_nonce THEN nonce ELSE gadget_nonce) + 1

\* self._shortcut_nonce += 1; sid = self._shortcut_nonce
next_shortcut_id(nonce) == nonce + 1

\* faulty variant of claim_score: the remainder is taken of the clock value
\* as it is, not of its whole seconds
claim_score_of_ticks(now) == HAX_SCORE_BASE + (now % 5)

\* HAX_SCORE_BASE + (int(now) % 5)
claim_score(now) == HAX_SCORE_BASE + ((now \div TicksPerSec) % 5)

HaxShortcut(sid, gadget_id, claimer, now, score) ==
    [shortcut_id |-> sid, gadget_id |-> gadget_id, claimer |-> claimer,
     claimed_at |-> now, score_added |-> score]

\* HaxClaimTooSoonError(claimer, HAX_MIN_CLAIM_INTERVAL_SEC): the call record
\* of a claim refused as too soon carries the exception's wait_sec
Raised(call) ==
    IF call.error = "ClaimTooSoon"
    THEN [wait_sec |-> HAX_MIN_CLAIM_INTERVAL_SEC] @@ call
    ELSE call

\* The clock is read twice (lines 257 and 262): dt ticks pass in between.
ClaimShortcut(gadget_id, claimer, dt) ==
    LET err   == claim_error(gadget_id, claimer, clock)
        sid   == next_shortcut_id(shortcut_nonce)
        now   == clock + dt
        score == claim_score(now)
        s     == HaxShortcut(sid, gadget_id, claimer, now, score)
    IN  /\ lastCall = NoCall
        /\ IF err # "ok"
           THEN /\ lastCall' = Raised(Call("claim_shortcut", claimer, gadget_id,
                                           WeiZero, FALSE, err, 0, clock))
                /\ UNCHANGED <<engine, clock, ok_registers, ok_claims>>
           ELSE /\ shortcut_nonce' = sid
                /\ shortcuts' = Put(shortcuts, sid, s)
                /\ shortcut_count_by_user' =
                       Put(shortcut_count_by_user, claimer,
                           Get(shortcut_count_by_user, claimer, 0) + 1)
                /\ efficiency_score' =
                       Put(efficiency_score, claimer,
                           Get(efficiency_score, claimer, 0) + score)
                /\ last_claim_time' = Put(last_claim_time, claimer, now)
                /\ gadgets' = [gadgets EXCEPT ![gadget_id].claim_count = @ + 1]
                /\ clock' = now
                /\ lastCall' = Call("claim_shortcut", claimer, gadget_id, WeiZero,
                                    FALSE, "ok", sid, clock)
                /\ ok_claims' = ok_claims + 1
                /\ UNCHANGED <<paused, gadget_nonce, gadget_ids_by_owner,
                               total_fees_wei, ok_registers>>

\* ------------------------------------------------------------------------
\* set_gadget_active
\* ------------------------------------------------------------------------
\* faulty variant of set_active_error: the caller is not compared with
\* the owner
set_active_error_no_owner_check(gadget_id, owner) ==
    IF gadget_id \notin DOMAIN gadgets THEN "InvalidGadgetId" ELSE "ok"

\* the exception set_gadget_active raises, "ok" when none
set_active_error(gadget_id, owner) ==
    IF gadget_id \notin DOMAIN gadgets THEN "InvalidGadgetId"
    ELSE IF gadgets[gadget_id].owner # owner THEN "NotOperator"
    ELSE "ok"

\* faulty variant of SetGadgetActive: the owner's call also renews the
\* gadget's registration time
SetGadgetActive_Restamp(gadget_id, owner, active) ==
    LET err == set_active_error(gadget_id, owner)
    IN  /\ lastCall = NoCall
        /\ lastCall' = Call("set_gadget_active", owner, gadget_id, WeiZero,
                            active, err, 0, clock)
        /\ IF err # "ok"
           THEN UNCHANGED gadgets
           ELSE gadgets' = [gadgets EXCEPT ![gadget_id].active = active,
                                           ![gadget_id].registered_at = clock]
        /\ UNCHANGED <<paused, gadget_nonce, shortcut_nonce, shortcuts,
                       gadget_ids_by_owner, shortcut_count_by_user,
                       efficiency_score, last_claim_time, total_fees_wei,
                       clock, ok_registers, ok_claims>>

\* faulty variant of SetGadgetActive: a reactivated gadget starts with a
\* claim count of 0 again
SetGadgetActive_ResetCount(gadget_id, owner, active) ==
    LET err == set_active_error(gadget_id, owner)
    IN  /\ lastCall = NoCall
        /\ lastCall' = Call("set_gadget_active", owner, gadget_id, WeiZero,
                            active, err, 0, clock)
        /\ IF err # "ok"
           THEN UNCHANGED gadgets
           ELSE gadgets' = [gadgets EXCEPT
                               ![gadget_id].active = active,
                               ![gadget_id].claim_count = IF active THEN 0 ELSE @]
        /\ UNCHANGED <<paused, gadget_nonce, shortcut_nonce, shortcuts,
                       gadget_ids_by_owner, shortcut_count_by_user,
                       efficiency_score, last_claim_time, total_fees_wei,
                       clock, ok_registers, ok_claims>>

\* faulty variant of SetGadgetActive: the flag is written before the
\* owner is checked
SetGadgetActive_WriteFirst(gadget_id, owner, active) ==
    LET err == set_active_error(gadget_id, owner)
    IN  /\ lastCall = NoCall
        /\ lastCall' = Call("set_gadget_active", owner, gadget_id, WeiZero,
                            active, err, 0, clock)
        /\ IF gadget_id \notin DOMAIN gadgets
           THEN UNCHANGED gadgets
           ELSE gadgets' = [gadgets EXCEPT ![gadget_id].active = active]
        /\ UNCHANGED <<paused, gadget_nonce, shortcut_nonce, shortcuts,
                       gadget_ids_by_owner, shortcut_count_by_user,
                       efficiency_score, last_claim_time, total_fees_wei,
                       clock, ok_registers, ok_claims>>

SetGadgetActive(gadget_id, owner, active) ==
    LET err == set_active_error(gadget_id, owner)
    IN  /\ lastCall = NoCall
        /\ lastCall' = Call("set_gadget_active", owner, gadget_id, WeiZero,
                            active, err, 0, clock)
        /\ IF err # "ok"
           THEN UNCHANGED gadgets
           ELSE gadgets' = [gadgets EXCEPT ![gadget_id].active = active]
        /\ UNCHANGED <<paused, gadget_nonce, shortcut_nonce, shortcuts,
                       gadget_ids_by_owner, shortcut_count_by_user,
                       efficiency_score, last_claim_time, total_fees_wei,
                       clock, ok_registers, ok_claims>>

\* ------------------------------------------------------------------------
\* set_paused, and the passing of time between calls
\* ------------------------------------------------------------------------
SetPaused(p) ==
    /\ lastCall = NoCall
    /\ paused' = p
    /\ UNCHANGED <<gadget_nonce, shortcut_nonce, gadgets, shortcuts,
                   gadget_ids_by_owner, shortcut_count_by_user,
                   efficiency_score, last_claim_time, total_fees_wei,
                   clock, history>>

Tick(d) ==
    /\ lastCall = NoCall
    /\ clock + d <= sec(MaxClockSec)
    /\ clock' = clock + d
    /\ UNCHANGED <<engine, history>>

\* The engine is used from one thread: a call returns, and its caller takes
\* the result or the exception, before anything else happens.
Return ==
    /\ lastCall # NoCall
    /\ lastCall' = NoCall
    /\ UNCHANGED <<engine, clock, ok_registers, ok_claims, refused, scenario,
                   caller>>

\* ------------------------------------------------------------------------
\* Spec: every operation, on small inputs
\* ------------------------------------------------------------------------
Owners == {"alice"}
Callers == {"alice", "bob"}
Claimers == {"bob", "carol"}
Payloads == {<<"p">>}
Categories == {"snippet"}
Fees == {WeiZero, HAX_FEE_WEI}
TickSteps == {sec(HAX_MIN_CLAIM_INTERVAL_SEC)}
ReadGaps == {0, sec(HAX_MIN_CLAIM_INTERVAL_SEC)}

Next ==
    \/ \E owner \in Owners, payload \in Payloads, category \in Categories,
          fee_wei \in Fees :
          /\ ok_registers < MaxReg
          /\ RegisterGadget(owner, payload, category, fee_wei)
          /\ UNCHANGED <<refused, scenario, caller>>
    \/ \E gadget_id \in 1 .. gadget_nonce + 1, claimer \in Claimers,
          dt \in ReadGaps :
          /\ ok_claims < MaxClaims \/ claim_error(gadget_id, claimer, clock) # "ok"
          /\ clock + dt <= sec(MaxClockSec)
          /\ ClaimShortcut(gadget_id, claimer, dt)
          /\ UNCHANGED <<refused, scenario, caller>>
    \/ \E gadget_id \in 1 .. gadget_nonce + 1, owner \in Callers,
          active \in BOOLEAN :
          /\ SetGadgetActive(gadget_id, owner, active)
          /\ UNCHANGED <<refused, scenario, caller>>
    \/ \E p \in BOOLEAN : SetPaused(p) /\ UNCHANGED <<refused, scenario, caller>>
    \/ \E d \in TickSteps : Tick(d) /\ UNCHANGED <<refused, scenario, caller>>
    \/ Return

Spec == Init /\ [][Next]_vars

\* ------------------------------------------------------------------------
\* SpecQuota: one owner registers up to and past the per-user quota while a
\* second owner registers once; no claims are made
\* ------------------------------------------------------------------------
QuotaOwners == {"alice", "bob"}

NextQuota ==
    \/ \E owner \in QuotaOwners, payload \in Payloads,
          category \in Categories, fee_wei \in Fees :
          /\ owner = "alice" \/ owner \notin DOMAIN gadget_ids_by_owner
          /\ RegisterGadget(owner, payload, category, fee_wei)
          /\ UNCHANGED <<refused, scenario, caller>>
    \/ \E owner \in Callers, active \in BOOLEAN :
          /\ SetGadgetActive(1, owner, active)
          /\ UNCHANGED <<refused, scenario, caller>>
    \/ \E p \in BOOLEAN : SetPaused(p) /\ UNCHANGED <<refused, scenario, caller>>
    \/ Return

InitQuota == InitFor("quota")

SpecQuota == InitQuota /\ [][NextQuota]_vars

\* ------------------------------------------------------------------------
\* SpecCap: a loader fills the registry, 32 gadgets per owner, up to
\* CapFree gadgets below the global cap; then a full owner, a partly
\* filled owner and a new owner register freely
\* ------------------------------------------------------------------------
\* the number of ids the loader leaves free below HAX_MAX_GADGETS
CapFree == 2

LoadOwners ==
    <<"u01", "u02", "u03", "u04", "u05", "u06", "u07", "u08", "u09",
      "u10", "u11", "u12", "u13", "u14", "u15", "u16", "u17", "u18",
      "u19", "u20", "u21", "u22", "u23", "u24", "u25", "u26", "u27",
      "u28", "u29", "u30", "u31", "u32", "u33", "u34", "u35", "u36",
      "u37", "u38", "u39", "u40", "u41", "u42", "u43", "u44", "u45",
      "u46", "u47", "u48", "u49", "u50", "u51", "u52", "u53", "u54",
      "u55", "u56", "u57", "u58", "u59", "u60", "u61", "u62", "u63",
      "u64">>

\* the owner of the loader's next registration
LoadOwner == LoadOwners[(gadget_nonce \div HAX_QUOTA_PER_USER) + 1]

CapOwners == {LoadOwners[1], LoadOwners[Len(LoadOwners)], "zed"}

InitCap == InitFor("cap") /\ ~paused

LoadRegister ==
    /\ gadget_nonce < HAX_MAX_GADGETS - CapFree
    /\ RegisterGadget(LoadOwner, <<"p">>, "snippet", HAX_FEE_WEI)
    /\ UNCHANGED <<refused, scenario, caller>>

NextCap ==
    \/ LoadRegister
    \/ \E owner \in CapOwners, payload \in Payloads, category \in Categories,
          fee_wei \in Fees :
          /\ gadget_nonce >= HAX_MAX_GADGETS - CapFree
          /\ RegisterGadget(owner, payload, category, fee_wei)
          /\ UNCHANGED <<refused, scenario, caller>>
    \/ \E p \in BOOLEAN :
          /\ gadget_nonce >= HAX_MAX_GADGETS - CapFree
          /\ SetPaused(p)
          /\ UNCHANGED <<refused, scenario, caller>>
    \/ Return

SpecCap == InitCap /\ [][NextCap]_vars

\* ------------------------------------------------------------------------
\* SpecReactivate: claims on gadgets that are deactivated and reactivated;
\* refused records the gadgets a claim was refused on as inactive
\* ------------------------------------------------------------------------
ReactGadgets == 1
ReactClaims == 2

NextReactivate ==
    \/ \E owner \in Owners, payload \in Payloads, category \in Categories :
          /\ ok_registers < ReactGadgets
          /\ RegisterGadget(owner, payload, category, HAX_FEE_WEI)
          /\ UNCHANGED <<refused, scenario, caller>>
    \/ \E gadget_id \in 1 .. gadget_nonce, claimer \in Claimers,
          dt \in ReadGaps :
          /\ ok_claims < ReactClaims
          /\ clock + dt <= sec(MaxClockSec)
          /\ ClaimShortcut(gadget_id, claimer, dt)
          /\ refused' = IF lastCall'.error = "GadgetInactive"
                        THEN refused \cup {gadget_id} ELSE refused
          /\ UNCHANGED <<scenario, caller>>
    \/ \E gadget_id \in 1 .. gadget_nonce, owner \in Callers,
          active \in BOOLEAN :
          /\ SetGadgetActive(gadget_id, owner, active)
          /\ UNCHANGED <<refused, scenario, caller>>
    \/ \E p \in BOOLEAN : SetPaused(p) /\ UNCHANGED <<refused, scenario, caller>>
    \/ \E d \in TickSteps : Tick(d) /\ UNCHANGED <<refused, scenario, caller>>
    \/ Return

InitReactivate == InitFor("reactivate")

SpecReactivate == InitReactivate /\ [][NextReactivate]_vars

\* ------------------------------------------------------------------------
\* SpecAll: the runs of Spec, SpecQuota and SpecCap together, so that every
\* exception of the engine is raised in some run
\* ------------------------------------------------------------------------
InitAll == InitFor("ops") \/ InitFor("quota") \/ InitCap

NextAll ==
    \/ scenario = "ops" /\ Next
    \/ scenario = "quota" /\ NextQuota
    \/ scenario = "cap" /\ NextCap

SpecAll == InitAll /\ [][NextAll]_vars

\* ------------------------------------------------------------------------
\* Treasury math: hax_operator_fee_wei, hax_treasury_wei
\* ------------------------------------------------------------------------
\* the amount n >= 0 as a digit sequence
RECURSIVE WeiOf(_)
WeiOf(n) == IF n = 0 THEN << >> ELSE <<n % WeiBase>> \o WeiOf(n \div WeiBase)

\* a digit sequence without its leading (most significant) zero digits
RECURSIVE WeiNorm(_)
WeiNorm(a) ==
    IF a = << >> THEN << >>
    ELSE IF a[Len(a)] = 0 THEN WeiNorm(SubSeq(a, 1, Len(a) - 1))
    ELSE a

RECURSIVE WeiMulC(_, _, _)
WeiMulC(a, k, carry) ==
    IF a = << >> THEN WeiOf(carry)
    ELSE LET p == Head(a) * k + carry
         IN  <<p % WeiBase>> \o WeiMulC(Tail(a), k, p \div WeiBase)

\* a * k for 0 <= k <= WeiBase
WeiMulSmall(a, k) == WeiNorm(WeiMulC(a, k, 0))

\* long division from the most significant digit i down, rem carried in
RECURSIVE WeiDivFrom(_, _, _, _)
WeiDivFrom(a, d, i, rem) ==
    IF i = 0 THEN << >>
    ELSE LET cur == rem * WeiBase + a[i]
         IN  WeiDivFrom(a, d, i - 1, cur % d) \o <<cur \div d>>

\* a // d for 0 < d <= WeiBase
WeiDivSmall(a, d) == WeiNorm(WeiDivFrom(a, d, Len(a), 0))

RECURSIVE WeiSubB(_, _, _)
WeiSubB(a, b, borrow) ==
    IF a = << >> THEN << >>
    ELSE LET y == (IF b = << >> THEN 0 ELSE Head(b)) + borrow
             x == Head(a)
         IN  <<IF x >= y THEN x - y ELSE x + WeiBase - y>> \o
             WeiSubB(Tail(a), IF b = << >> THEN << >> ELSE Tail(b),
                     IF x >= y THEN 0 ELSE 1)

\* a - b; a negative difference has its digits negated
WeiSub(a, b) ==
    IF WeiLess(a, b)
    THEN LET m == WeiNorm(WeiSubB(b, a, 0)) IN [i \in 1 .. Len(m) |-> 0 - m[i]]
    ELSE WeiNorm(WeiSubB(a, b, 0))

\* faulty variant of hax_operator_fee_wei: the share is rounded to the
\* nearest wei instead of down
hax_operator_fee_wei_rounded(total_wei) ==
    WeiDivSmall(WeiAdd(WeiMulSmall(total_wei, HAX_OPERATOR_FEE_BPS),
                       WeiOf(HAX_BPS_DENOM \div 2)),
                HAX_BPS_DENOM)

\* (total_wei * HAX_OPERATOR_FEE_BPS) // HAX_BPS_DENOM
hax_operator_fee_wei(total_wei) ==
    WeiDivSmall(WeiMulSmall(total_wei, HAX_OPERATOR_FEE_BPS), HAX_BPS_DENOM)

\* total_wei - hax_operator_fee_wei(total_wei)
hax_treasury_wei(total_wei) == WeiSub(total_wei, hax_operator_fee_wei(total_wei))

\* SpecFeeSplit: both functions applied to one total
MaxTotal == 260

\* 10^30 = 100 * (10^4)^7
Wei10e30 == <<0, 0, 0, 0, 0, 0, 0, 100>>

FeeTotals ==
    {WeiOf(n) : n \in 0 .. MaxTotal}
    \cup {WeiAdd(HAX_FEE_WEI, WeiOf(n)) : n \in 0 .. MaxTotal}
    \cup {Wei10e30, WeiSub(Wei10e30, WeiOf(1))}

InitFeeSplit ==
    /\ InitEngine
    /\ ~paused
    /\ lastCall \in {[op |-> "args", total_wei |-> t] : t \in FeeTotals}
    /\ ok_registers = 0
    /\ ok_claims = 0
    /\ clock = 0
    /\ refused = {}
    /\ scenario = "fee_split"
    /\ InitCaller

FeeSplit ==
    /\ lastCall.op = "args"
    /\ lastCall' = [op |-> "fee_split", total_wei |-> lastCall.total_wei,
                    operator_fee |-> hax_operator_fee_wei(lastCall.total_wei),
                    treasury |-> hax_treasury_wei(lastCall.total_wei)]
    /\ UNCHANGED <<engine, clock, ok_registers, ok_claims, refused, scenario,
                   caller>>

NextFeeSplit == FeeSplit

SpecFeeSplit == InitFeeSplit /\ [][NextFeeSplit]_vars

\* ------------------------------------------------------------------------
\* HaxEfficiencyTier
\* ------------------------------------------------------------------------
\* the members in definition order, each with its (min_score, max_score)
HaxEfficiencyTier ==
    <<[name |-> "BRONZE",   min_score |-> 0,     max_score |-> 99],
      [name |-> "SILVER",   min_score |-> 100,   max_score |-> 499],
      [name |-> "GOLD",     min_score |-> 500,   max_score |-> 1999],
      [name |-> "PLATINUM", min_score |-> 2000,  max_score |-> 9999],
      [name |-> "LEGEND",   min_score |-> 10000, max_score |-> 10 ^ 9]>>

\* faulty variant of from_score: no default after the loop
from_score_no_default(score) ==
    LET hit == {i \in 1 .. Len(HaxEfficiencyTier) :
                   /\ HaxEfficiencyTier[i].min_score <= score
                   /\ score <= HaxEfficiencyTier[i].max_score}
    IN  IF hit = {} THEN "None"
        ELSE HaxEfficiencyTier[CHOOSE i \in hit : \A j \in hit : i <= j].name

\* for t in cls, from member i on: the first whose range holds score;
\* cls.LEGEND when the loop ends
RECURSIVE from_score_loop(_, _)
from_score_loop(score, i) ==
    IF i > Len(HaxEfficiencyTier) THEN "LEGEND"
    ELSE IF /\ HaxEfficiencyTier[i].min_score <= score
            /\ score <= HaxEfficiencyTier[i].max_score
         THEN HaxEfficiencyTier[i].name
    ELSE from_score_loop(score, i + 1)

from_score(score) == from_score_loop(score, 1)

\* SpecTier: from_score applied to one score
MaxScore == 120

ScoreInputs ==
    (0 .. MaxScore)
    \cup {499, 500, 1999, 2000, 9999, 10000, 10001, 10 ^ 9, 10 ^ 9 + 1, 2 * 10 ^ 9}

InitTier ==
    /\ InitEngine
    /\ ~paused
    /\ lastCall \in {[op |-> "args", score |-> n] : n \in ScoreInputs}
    /\ ok_registers = 0
    /\ ok_claims = 0
    /\ clock = 0
    /\ refused = {}
    /\ scenario = "tier"
    /\ InitCaller

FromScore ==
    /\ lastCall.op = "args"
    /\ lastCall' = [op |-> "from_score", score |-> lastCall.score,
                    tier |-> from_score(lastCall.score)]
    /\ UNCHANGED <<engine, clock, ok_registers, ok_claims, refused, scenario,
                   caller>>

NextTier == FromScore

SpecTier == InitTier /\ [][NextTier]_vars

\* ------------------------------------------------------------------------
\* get_user_stats
\* ------------------------------------------------------------------------
\* faulty variant of HaxUserStats_of: the gadget count is the registry's,
\* not the user's
HaxUserStats_of_registry(user) ==
    LET score == Get(efficiency_score, user, 0)
    IN  [user |-> user,
         gadget_count |-> gadget_nonce,
         shortcut_count |-> Get(shortcut_count_by_user, user, 0),
         efficiency_score |-> score,
         tier |-> from_score(score),
         last_claim_at |-> Get(last_claim_time, user, 0)]

\* the HaxUserStats that get_user_stats(user) builds
HaxUserStats_of(user) ==
    LET score == Get(efficiency_score, user, 0)
    IN  [user |-> user,
         gadget_count |-> Len(Get(gadget_ids_by_owner, user, << >>)),
         shortcut_count |-> Get(shortcut_count_by_user, user, 0),
         efficiency_score |-> score,
         tier |-> from_score(score),
         last_claim_at |-> Get(last_claim_time, user, 0)]

GetUserStats(user) ==
    /\ lastCall = NoCall
    /\ lastCall' = [op |-> "get_user_stats", user |-> user,
                    ret |-> HaxUserStats_of(user)]
    /\ UNCHANGED <<engine, clock, ok_registers, ok_claims>>

\* ------------------------------------------------------------------------
\* HaxEfficiencyAnalytics.top_users_by_score
\* ------------------------------------------------------------------------
\* the keys of scores: every gadget's owner and every user with a shortcut
\* count
scores_keys ==
    {gadgets[g].owner : g \in DOMAIN gadgets} \cup DOMAIN shortcut_count_by_user

\* set(list(eff.keys()) + list(scores.keys())) iterates in an order that
\* the set's hashing decides: any order of its elements
Orderings(S) ==
    {f \in [1 .. Cardinality(S) -> S] :
        \A i, j \in 1 .. Cardinality(S) : f[i] = f[j] => i = j}

\* x put into a list sorted by key, behind the entries whose key is not
\* greater than its own; the key of an entry x is k * x[2]
RECURSIVE insert_by_key(_, _, _)
insert_by_key(sorted, x, k) ==
    IF sorted = << >> THEN <<x>>
    ELSE IF k * x[2] < k * Head(sorted)[2] THEN <<x>> \o sorted
    ELSE <<Head(sorted)>> \o insert_by_key(Tail(sorted), x, k)

\* list.sort(key=lambda x: k * x[1]) of the first i entries: ascending in
\* the key and stable
RECURSIVE sort_from(_, _, _)
sort_from(list, i, k) ==
    IF i = 0 THEN << >>
    ELSE insert_by_key(sort_from(list, i - 1, k), list[i], k)

\* faulty variant of sort_by_score: ascending in the score
sort_by_score_ascending(combined) == sort_from(combined, Len(combined), 1)

\* combined.sort(key=lambda x: -x[1])
sort_by_score(combined) == sort_from(combined, Len(combined), -1)

\* list[:limit]
slice_to(list, limit) ==
    LET stop == IF limit >= 0
                THEN (IF limit < Len(list) THEN limit ELSE Len(list))
                ELSE (IF Len(list) + limit > 0 THEN Len(list) + limit ELSE 0)
    IN  SubSeq(list, 1, stop)

TopUsersByScore(limit) ==
    \E order \in Orderings(DOMAIN efficiency_score \cup scores_keys) :
        LET combined == [i \in 1 .. Len(order) |->
                            <<order[i], Get(efficiency_score, order[i], 0)>>]
        IN  /\ lastCall = NoCall
            /\ lastCall' = [op |-> "top_users_by_score", limit |-> limit,
                            ret |-> slice_to(sort_by_score(combined), limit)]
            /\ UNCHANGED <<engine, clock, ok_registers, ok_claims>>

\* ------------------------------------------------------------------------
\* SpecStats: registrations at clock 0, then claims at clock values that
\* are no whole minutes, and the user stats query
\* ------------------------------------------------------------------------
StatReg == 2
StatClaims == 2
\* the short clock step, in ticks, and the ticks past the whole minute up
\* to which it is taken
StatTick == 2
StatJitter == 9
\* the largest limit asked of top_users_by_score
StatLimit == 3

StatOwners == {"alice", "bob"}
StatUsers == {"alice", "bob", "carol"}
StatTicks == {StatTick, sec(HAX_MIN_CLAIM_INTERVAL_SEC)}
StatGaps == {1}

NextStats ==
    \/ \E owner \in StatOwners, payload \in Payloads, category \in Categories :
          /\ ok_registers < StatReg
          /\ clock = 0
          /\ RegisterGadget(owner, payload, category, HAX_FEE_WEI)
          /\ UNCHANGED <<refused, scenario, caller>>
    \/ \E gadget_id \in 1 .. gadget_nonce, claimer \in Claimers,
          dt \in StatGaps :
          /\ ok_claims < StatClaims \/ claim_error(gadget_id, claimer, clock) # "ok"
          /\ clock + dt <= sec(MaxClockSec)
          /\ ClaimShortcut(gadget_id, claimer, dt)
          /\ UNCHANGED <<refused, scenario, caller>>
    \/ \E d \in StatTicks :
          /\ d = StatTick =>
                (clock % sec(HAX_MIN_CLAIM_INTERVAL_SEC)) + d <= StatJitter
          /\ Tick(d)
          /\ UNCHANGED <<refused, scenario, caller>>
    \/ \E user \in StatUsers :
          GetUserStats(user) /\ UNCHANGED <<refused, scenario, caller>>
    \/ Return

InitStats == InitFor("stats")

SpecStats == InitStats /\ [][NextStats]_vars

\* ------------------------------------------------------------------------
\* SpecTop: registrations at clock 0, then claims a minute or more apart,
\* and the leaderboard query
\* ------------------------------------------------------------------------
NextTop ==
    \/ \E owner \in StatOwners, payload \in Payloads, category \in Categories :
          /\ ok_registers < StatReg
          /\ clock = 0
          /\ RegisterGadget(owner, payload, category, HAX_FEE_WEI)
          /\ UNCHANGED <<refused, scenario, caller>>
    \/ \E gadget_id \in 1 .. gadget_nonce, claimer \in Claimers,
          dt \in StatGaps :
          /\ ok_claims < StatClaims
          /\ clock + dt <= sec(MaxClockSec)
          /\ ClaimShortcut(gadget_id, claimer, dt)
          /\ UNCHANGED <<refused, scenario, caller>>
    \/ \E d \in TickSteps : Tick(d) /\ UNCHANGED <<refused, scenario, caller>>
    \/ \E limit \in -1 .. StatLimit :
          TopUsersByScore(limit) /\ UNCHANGED <<refused, scenario, caller>>
    \/ Return

InitTop == InitFor("top")

SpecTop == InitTop /\ [][NextTop]_vars

\* ------------------------------------------------------------------------
\* SpecFees: registrations with fees below, at and above the minimum, among
\* the other operations
\* ------------------------------------------------------------------------
FeeRegs == 3
FeeClaims == 1

\* 1999999999999999, one wei short of the minimum
FeeShort == <<9999, 9999, 9999, 1999>>
\* 9000000000000001
FeeLarge == <<1, 0, 0, 9000>>

FeeChoices == {WeiZero, FeeShort, HAX_FEE_WEI, FeeLarge}

NextFees ==
    \/ \E owner \in QuotaOwners, payload \in Payloads,
          category \in Categories, fee_wei \in FeeChoices :
          /\ ok_registers < FeeRegs
          /\ RegisterGadget(owner, payload, category, fee_wei)
          /\ UNCHANGED <<refused, scenario, caller>>
    \/ \E claimer \in Claimers :
          /\ ok_claims < FeeClaims
          /\ ClaimShortcut(1, claimer, 0)
          /\ UNCHANGED <<refused, scenario, caller>>
    \/ \E owner \in Callers, active \in BOOLEAN :
          /\ SetGadgetActive(1, owner, active)
          /\ UNCHANGED <<refused, scenario, caller>>
    \/ \E p \in BOOLEAN : SetPaused(p) /\ UNCHANGED <<refused, scenario, caller>>
    \/ \E d \in TickSteps :
          /\ clock = 0
          /\ Tick(d)
          /\ UNCHANGED <<refused, scenario, caller>>
    \/ Return

InitFees == InitFor("fees")

SpecFees == InitFees /\ [][NextFees]_vars

\* ------------------------------------------------------------------------
\* HaxShortcutValidator.can_claim
\* ------------------------------------------------------------------------
\* the pair can_claim returns when it reads the clock at now
can_claim(gadget_id, claimer, now) ==
    IF gadget_id \notin DOMAIN gadgets THEN <<FALSE, "invalid_gadget_id">>
    ELSE IF ~gadgets[gadget_id].active THEN <<FALSE, "gadget_inactive">>
    ELSE IF claim_too_soon(now, Get(last_claim_time, claimer, 0))
         THEN <<FALSE, "claim_too_soon">>
    ELSE <<TRUE, "ok">>

CanClaim(gadget_id, claimer) ==
    /\ lastCall = NoCall
    /\ lastCall' = [op |-> "can_claim", user |-> claimer,
                    gadget_id |-> gadget_id,
                    ret |-> can_claim(gadget_id, claimer, clock),
                    at |-> clock]
    /\ UNCHANGED <<engine, clock, ok_registers, ok_claims>>

\* the engine of Spec, asked by its callers whether a claim would pass
NextValidator ==
    \/ \E owner \in Owners, payload \in Payloads, category \in Categories,
          fee_wei \in Fees :
          /\ ok_registers < MaxReg
          /\ RegisterGadget(owner, payload, category, fee_wei)
          /\ UNCHANGED <<refused, scenario, caller>>
    \/ \E gadget_id \in 1 .. gadget_nonce + 1, claimer \in Claimers,
          dt \in ReadGaps :
          /\ ok_claims < MaxClaims \/ claim_error(gadget_id, claimer, clock) # "ok"
          /\ clock + dt <= sec(MaxClockSec)
          /\ ClaimShortcut(gadget_id, claimer, dt)
          /\ UNCHANGED <<refused, scenario, caller>>
    \/ \E gadget_id \in 1 .. gadget_nonce + 1, claimer \in Claimers :
          /\ CanClaim(gadget_id, claimer)
          /\ UNCHANGED <<refused, scenario, caller>>
    \/ \E gadget_id \in 1 .. gadget_nonce + 1, owner \in Callers,
          active \in BOOLEAN :
          /\ SetGadgetActive(gadget_id, owner, active)
          /\ UNCHANGED <<refused, scenario, caller>>
    \/ \E p \in BOOLEAN : SetPaused(p) /\ UNCHANGED <<refused, scenario, caller>>
    \/ \E d \in TickSteps : Tick(d) /\ UNCHANGED <<refused, scenario, caller>>
    \/ Return

InitValidator == InitFor("validator")

SpecValidator == InitValidator /\ [][NextValidator]_vars

\* ------------------------------------------------------------------------
\* hax_export_shortcuts, hax_export_csv_shortcuts
\* ------------------------------------------------------------------------
\* list(engine._shortcuts.values()): the shortcuts in insertion order, which
\* is the order of their ids
shortcut_values ==
    [i \in 1 .. Cardinality(DOMAIN shortcuts) |-> shortcuts[i]]

\* list[-limit:]
slice_last(list, limit) ==
    LET start == IF -limit < 0
                 THEN (IF Len(list) - limit > 0 THEN Len(list) - limit ELSE 0)
                 ELSE (IF -limit < Len(list) THEN -limit ELSE Len(list))
    IN  SubSeq(list, start + 1, Len(list))

\* HaxShortcut.to_dict
to_dict(s) ==
    [shortcut_id |-> s.shortcut_id, gadget_id |-> s.gadget_id,
     claimer |-> s.claimer, claimed_at |-> s.claimed_at,
     score_added |-> s.score_added]

\* HaxCsvExport.shortcuts_header, HaxCsvExport.shortcut_row: a line is the
\* sequence of its comma-separated fields
shortcuts_header ==
    <<"shortcut_id", "gadget_id", "claimer", "claimed_at", "score_added">>

shortcut_row(s) ==
    <<s.shortcut_id, s.gadget_id, s.claimer, s.claimed_at, s.score_added>>

\* the "shortcuts" member of the exported JSON document
ExportShortcuts(limit) ==
    LET chosen == slice_last(shortcut_values, limit)
    IN  /\ lastCall = NoCall
        /\ lastCall' = [op |-> "export_shortcuts", limit |-> limit,
                        ret |-> [i \in 1 .. Len(chosen) |-> to_dict(chosen[i])],
                        at |-> clock]
        /\ UNCHANGED <<engine, clock, ok_registers, ok_claims>>

\* the lines of the exported CSV document
ExportCsvShortcuts(limit) ==
    LET chosen == slice_last(shortcut_values, limit)
    IN  /\ lastCall = NoCall
        /\ lastCall' = [op |-> "export_csv_shortcuts", limit |-> limit,
                        ret |-> <<shortcuts_header>> \o
                                [i \in 1 .. Len(chosen) |->
                                    shortcut_row(chosen[i])],
                        at |-> clock]
        /\ UNCHANGED <<engine, clock, ok_registers, ok_claims>>

\* SpecExport: one gadget, claims a minute apart, and exports of the
\* shortcuts with limits from 0 up
ExportClaims == 3
ExportLimit == 4

NextExport ==
    \/ \E owner \in Owners, payload \in Payloads, category \in Categories :
          /\ ok_registers < 1
          /\ clock = 0
          /\ RegisterGadget(owner, payload, category, HAX_FEE_WEI)
          /\ UNCHANGED <<refused, scenario, caller>>
    \/ \E gadget_id \in 1 .. gadget_nonce, claimer \in Claimers,
          dt \in StatGaps :
          /\ ok_claims < ExportClaims
          /\ clock + dt <= sec(MaxClockSec)
          /\ ClaimShortcut(gadget_id, claimer, dt)
          /\ UNCHANGED <<refused, scenario, caller>>
    \/ \E limit \in 0 .. ExportLimit :
          ExportShortcuts(limit) /\ UNCHANGED <<refused, scenario, caller>>
    \/ \E limit \in 0 .. ExportLimit :
          ExportCsvShortcuts(limit) /\ UNCHANGED <<refused, scenario, caller>>
    \/ \E d \in TickSteps : Tick(d) /\ UNCHANGED <<refused, scenario, caller>>
    \/ Return

InitExport == InitFor("export")

SpecExport == InitExport /\ [][NextExport]_vars

\* ------------------------------------------------------------------------
\* SpecHash: one owner registers payloads of which one ends in a digit
\* ------------------------------------------------------------------------
HashRegs == 11

HashPayloads == {<<"a">>, <<"a", "1">>}

NextHash ==
    \/ \E owner \in Owners, payload \in HashPayloads, category \in Categories :
          /\ ok_registers < HashRegs
          /\ RegisterGadget(owner, payload, category, HAX_FEE_WEI)
          /\ UNCHANGED <<refused, scenario, caller>>
    \/ Return

InitHash == InitFor("hash")

SpecHash == InitHash /\ [][NextHash]_vars

\* ------------------------------------------------------------------------
\* The engine as a value: a loop that calls the engine several times within
\* one handler threads this record through its calls
\* ------------------------------------------------------------------------
\* the engine and the clock as they are now
Self ==
    [paused |-> paused, gadget_nonce |-> gadget_nonce,
     shortcut_nonce |-> shortcut_nonce, gadgets |-> gadgets,
     shortcuts |-> shortcuts, gadget_ids_by_owner |-> gadget_ids_by_owner,
     shortcut_count_by_user |-> shortcut_count_by_user,
     efficiency_score |-> efficiency_score,
     last_claim_time |-> last_claim_time, total_fees_wei |-> total_fees_wei,
     clock |-> clock]

\* the engine and the clock are left as self says
Becomes(self) ==
    /\ paused' = self.paused
    /\ gadget_nonce' = self.gadget_nonce
    /\ shortcut_nonce' = self.shortcut_nonce
    /\ gadgets' = self.gadgets
    /\ shortcuts' = self.shortcuts
    /\ gadget_ids_by_owner' = self.gadget_ids_by_owner
    /\ shortcut_count_by_user' = self.shortcut_count_by_user
    /\ efficiency_score' = self.efficiency_score
    /\ last_claim_time' = self.last_claim_time
    /\ total_fees_wei' = self.total_fees_wei
    /\ clock' = self.clock

\* register_gadget's checks on the engine self
register_error_on(self, owner, fee_wei) ==
    IF self.paused THEN "Paused"
    ELSE IF fee_too_low(fee_wei) THEN "FeeRequired"
    ELSE IF quota_reached(Len(Get(self.gadget_ids_by_owner, owner, << >>)))
         THEN "QuotaExceeded"
    ELSE IF cap_reached(self.gadget_nonce) THEN "InvalidGadgetId"
    ELSE "ok"

\* register_gadget on the engine self: the engine it leaves, the exception
\* it raises ("ok" when none) and the gadget it returns
register_gadget_on(self, owner, payload, category, fee_wei) ==
    LET err == register_error_on(self, owner, fee_wei)
        gid == next_gadget_id(self.gadget_nonce)
        gh  == hax_hash_gadget(payload \o str(gid))
        g   == HaxGadget(gid, owner, gh, category, self.clock)
    IN  IF err # "ok"
        THEN [self |-> self, error |-> err, ret |-> << >>]
        ELSE [self |-> [self EXCEPT
                           !.gadget_nonce = gid,
                           !.gadgets = Put(@, gid, g),
                           !.gadget_ids_by_owner =
                               Put(@, owner, Append(Get(@, owner, << >>), gid)),
                           !.total_fees_wei = WeiAdd(@, fee_wei)],
              error |-> "ok", ret |-> <<g>>]

\* claim_shortcut's checks on the engine self
claim_error_on(self, gadget_id, claimer) ==
    IF self.paused THEN "Paused"
    ELSE IF gadget_id \notin DOMAIN self.gadgets THEN "InvalidGadgetId"
    ELSE IF ~self.gadgets[gadget_id].active THEN "GadgetInactive"
    ELSE IF claim_too_soon(self.clock, Get(self.last_claim_time, claimer, 0))
         THEN "ClaimTooSoon"
    ELSE "ok"

\* faulty variant of claim_shortcut_on: the time of the claim is not kept
claim_shortcut_on_no_stamp(self, gadget_id, claimer, dt) ==
    LET err   == claim_error_on(self, gadget_id, claimer)
        sid   == next_shortcut_id(self.shortcut_nonce)
        now   == self.clock + dt
        score == claim_score(now)
        s     == HaxShortcut(sid, gadget_id, claimer, now, score)
    IN  IF err # "ok"
        THEN [self |-> self, error |-> err, ret |-> << >>]
        ELSE [self |-> [self EXCEPT
                           !.shortcut_nonce = sid,
                           !.shortcuts = Put(@, sid, s),
                           !.shortcut_count_by_user =
                               Put(@, claimer, Get(@, claimer, 0) + 1),
                           !.efficiency_score =
                               Put(@, claimer, Get(@, claimer, 0) + score),
                           !.gadgets = [@ EXCEPT ![gadget_id].claim_count = @ + 1],
                           !.clock = now],
              error |-> "ok", ret |-> <<s>>]

\* claim_shortcut on the engine self, dt ticks passing between its two
\* readings of the clock
claim_shortcut_on(self, gadget_id, claimer, dt) ==
    LET err   == claim_error_on(self, gadget_id, claimer)
        sid   == next_shortcut_id(self.shortcut_nonce)
        now   == self.clock + dt
        score == claim_score(now)
        s     == HaxShortcut(sid, gadget_id, claimer, now, score)
    IN  IF err # "ok"
        THEN [self |-> self, error |-> err, ret |-> << >>]
        ELSE [self |-> [self EXCEPT
                           !.shortcut_nonce = sid,
                           !.shortcuts = Put(@, sid, s),
                           !.shortcut_count_by_user =
                               Put(@, claimer, Get(@, claimer, 0) + 1),
                           !.efficiency_score =
                               Put(@, claimer, Get(@, claimer, 0) + score),
                           !.last_claim_time = Put(@, claimer, now),
                           !.gadgets = [@ EXCEPT ![gadget_id].claim_count = @ + 1],
                           !.clock = now],
              error |-> "ok", ret |-> <<s>>]

\* ------------------------------------------------------------------------
\* HaxBatchProcessor
\* ------------------------------------------------------------------------
\* one turn of a batch loop: run is the loop so far, r the result of the
\* engine call on this item, after the ticks that pass before the next turn
batch_turn(run, r, after) ==
    [self   |-> [r.self EXCEPT !.clock = @ + after],
     out    |-> run.out \o r.ret,
     errors |-> Append(run.errors, r.error)]

\* a batch loop before its first turn
batch_start(self) == [self |-> self, out |-> << >>, errors |-> << >>]

\* one turn of register_batch's loop
register_batch_turn(run, owner, payload, category) ==
    batch_turn(run, register_gadget_on(run.self, owner, payload, category,
                                       HAX_FEE_WEI), 0)

\* register_batch's loop from run on: the turns done so far are as many as
\* the outcomes in run.errors
RECURSIVE register_batch_loop(_, _, _, _)
register_batch_loop(run, owner, payloads, category) ==
    IF Len(run.errors) = Len(payloads) THEN run
    ELSE register_batch_loop(
             register_batch_turn(run, owner, payloads[Len(run.errors) + 1],
                                 category),
             owner, payloads, category)

\* errors holds what each turn raised and the loop swallowed
RegisterBatch(owner, payloads, category) ==
    LET run == register_batch_loop(batch_start(Self), owner, payloads,
                                   category)
    IN  /\ lastCall = NoCall
        /\ Becomes(run.self)
        /\ lastCall' = [op |-> "register_batch", user |-> owner,
                        items |-> payloads, error |-> "ok", ret |-> run.out,
                        errors |-> run.errors, at |-> clock]
        /\ ok_registers' = ok_registers + Len(run.out)
        /\ UNCHANGED ok_claims

\* faulty variant of claim_batch_turn: the first exception ends the loop
claim_batch_turn_first_failure(run, claimer, gadget_id, gap) ==
    IF \E i \in 1 .. Len(run.errors) : run.errors[i] # "ok"
    THEN [run EXCEPT !.errors = Append(@, "skipped")]
    ELSE batch_turn(run, claim_shortcut_on(run.self, gadget_id, claimer, gap[1]),
                    gap[2])

\* one turn of claim_batch's loop; gap is the time the turn takes: the
\* ticks between the claim's two readings of the clock, and the ticks from
\* there to the next turn, time.sleep(0.01) included
claim_batch_turn(run, claimer, gadget_id, gap) ==
    batch_turn(run, claim_shortcut_on(run.self, gadget_id, claimer, gap[1]),
               gap[2])

\* claim_batch's loop from run on
RECURSIVE claim_batch_loop(_, _, _, _)
claim_batch_loop(run, claimer, gadget_ids, gaps) ==
    IF Len(run.errors) = Len(gadget_ids) THEN run
    ELSE claim_batch_loop(
             claim_batch_turn(run, claimer, gadget_ids[Len(run.errors) + 1],
                              gaps[Len(run.errors) + 1]),
             claimer, gadget_ids, gaps)

ClaimBatch(claimer, gadget_ids, gaps) ==
    LET run == claim_batch_loop(batch_start(Self), claimer, gadget_ids, gaps)
    IN  /\ lastCall = NoCall
        /\ Becomes(run.self)
        /\ lastCall' = [op |-> "claim_batch", user |-> claimer,
                        items |-> gadget_ids, error |-> "ok", ret |-> run.out,
                        errors |-> run.errors, at |-> clock]
        /\ ok_claims' = ok_claims + Len(run.out)
        /\ UNCHANGED ok_registers

\* ------------------------------------------------------------------------
\* hax_import_gadgets_json
\* ------------------------------------------------------------------------
\* the values of HaxGadgetCategory
HaxGadgetCategory == {"keyboard", "automation", "snippet", "workflow", "macro"}

\* g.get(key, default)
entry_get(g, key, default) == IF key \in DOMAIN g THEN g[key] ELSE default

\* one turn of the import's loop on entry g: HaxGadgetCategory(...) raises
\* on a value that is no category, before the engine is called
import_turn(run, g) ==
    LET owner   == entry_get(g, "owner", "imported")
        payload == entry_get(g, "gadget_hash", << >>) \o str(run.count)
        cat     == entry_get(g, "category", "snippet")
        r       == register_gadget_on(run.self, owner, payload, cat, WeiZero)
    IN  IF cat \notin HaxGadgetCategory
        THEN [self |-> run.self, count |-> run.count,
              errors |-> Append(run.errors, "ValueError")]
        ELSE [self |-> r.self,
              count |-> IF r.error = "ok" THEN run.count + 1 ELSE run.count,
              errors |-> Append(run.errors, r.error)]

\* the import's loop from run on
RECURSIVE import_loop(_, _)
import_loop(run, entries) ==
    IF Len(run.errors) = Len(entries) THEN run
    ELSE import_loop(import_turn(run, entries[Len(run.errors) + 1]), entries)

ImportGadgetsJson(entries) ==
    LET run == import_loop([self |-> Self, count |-> 0, errors |-> << >>],
                           entries)
    IN  /\ lastCall = NoCall
        /\ Becomes(run.self)
        /\ lastCall' = [op |-> "import_gadgets_json", items |-> entries,
                        error |-> "ok", ret |-> run.count,
                        errors |-> run.errors, at |-> clock]
        /\ ok_registers' = ok_registers + run.count
        /\ UNCHANGED ok_claims

\* ------------------------------------------------------------------------
\* SpecBatch: batches of registrations and of claims, imports, and the
\* owner's switching of gadget 1
\* ------------------------------------------------------------------------
BatchRegs == 1
BatchClaims == 1
BatchLong == 40

BatchOwners == {"alice", "bob"}

BatchPayloadLists ==
    {<<<<"p">>>>, <<<<"p">>, <<"q">>>>, [i \in 1 .. BatchLong |-> <<"p">>]}

BatchIdLists == {<<1, 2>>, <<3, 1>>, <<2, 1, 2>>}

\* a turn takes no time to speak of, or half a minute, or a minute
BatchGaps == {<<0, 0>>, <<1, sec(30) - 1>>, <<0, sec(60)>>}

ImportEntries ==
    {[owner |-> "alice", gadget_hash |-> <<"h">>, category |-> "snippet"],
     [gadget_hash |-> <<"h">>, category |-> "macro"],
     [owner |-> "alice", gadget_hash |-> <<"h">>, category |-> "gizmo"]}

ImportLists ==
    {<<e>> : e \in ImportEntries} \cup
    {<<e1, e2>> : e1 \in ImportEntries, e2 \in ImportEntries}

NextBatch ==
    \/ \E owner \in BatchOwners, payloads \in BatchPayloadLists,
          category \in Categories :
          /\ gadget_nonce < BatchRegs
          /\ RegisterBatch(owner, payloads, category)
          /\ UNCHANGED <<refused, scenario, caller>>
    \/ \E gadget_ids \in BatchIdLists :
          \E gaps \in [1 .. Len(gadget_ids) -> BatchGaps] :
             /\ ok_claims < BatchClaims
             /\ ClaimBatch("bob", gadget_ids, gaps)
             /\ clock' <= sec(MaxClockSec)
             /\ UNCHANGED <<refused, scenario, caller>>
    \/ \E entries \in ImportLists :
          ImportGadgetsJson(entries) /\ UNCHANGED <<refused, scenario, caller>>
    \/ \E active \in BOOLEAN :
          /\ SetGadgetActive(1, "alice", active)
          /\ UNCHANGED <<refused, scenario, caller>>
    \/ \E p \in BOOLEAN : SetPaused(p) /\ UNCHANGED <<refused, scenario, caller>>
    \/ \E d \in TickSteps : Tick(d) /\ UNCHANGED <<refused, scenario, caller>>
    \/ Return

InitBatch == InitFor("batch")

SpecBatch == InitBatch /\ [][NextBatch]_vars

\* ------------------------------------------------------------------------
\* What the caller holds: the gadget register_gadget and get_gadget return,
\* the list get_gadget_ids_by_owner returns
\* ------------------------------------------------------------------------
\* register_gadget returns g, the object it has stored in self._gadgets[gid]
\* (lines 244, 247), and get_gadget returns self._gadgets.get(gadget_id):
\* the caller holds a reference, ref, to the engine's own object. seen is
\* the value the object had when it was returned, with the caller's own
\* writes since.
held_gadget(gid, g) == [kind |-> "gadget", ref |-> gid, seen |-> g]

\* list(self._gadget_ids_by_owner.get(owner, [])): a new list, the caller's
held_ids(owner, ids) == [kind |-> "ids", owner |-> owner, list |-> ids]

\* what the caller reads in the gadget it holds
HeldGadget == gadgets[held.ref]

\* g = engine.register_gadget(...): the caller keeps the returned gadget; an
\* exception leaves what it held
TakeRegistered(owner, payload, category, fee_wei) ==
    /\ RegisterGadget(owner, payload, category, fee_wei)
    /\ held' = IF lastCall'.error = "ok"
               THEN held_gadget(lastCall'.ret, gadgets'[lastCall'.ret])
               ELSE held

\* g = engine.get_gadget(gadget_id): None when there is no such gadget
GetGadget(gadget_id) ==
    /\ lastCall = NoCall
    /\ lastCall' = [op |-> "get_gadget", gadget_id |-> gadget_id,
                    ret |-> gadget_id \in DOMAIN gadgets, at |-> clock]
    /\ held' = IF gadget_id \in DOMAIN gadgets
               THEN held_gadget(gadget_id, gadgets[gadget_id])
               ELSE NoHeld
    /\ UNCHANGED <<engine, clock, ok_registers, ok_claims>>

\* ids = engine.get_gadget_ids_by_owner(owner)
GetGadgetIdsByOwner(owner) ==
    /\ lastCall = NoCall
    /\ lastCall' = [op |-> "get_gadget_ids_by_owner", user |-> owner,
                    ret |-> Get(gadget_ids_by_owner, owner, << >>),
                    at |-> clock]
    /\ held' = held_ids(owner, Get(gadget_ids_by_owner, owner, << >>))
    /\ UNCHANGED <<engine, clock, ok_registers, ok_claims>>

\* the caller's g.active = active on the gadget it holds: HaxGadget is a
\* plain dataclass, the assignment writes the object ref refers to
WriteHeldGadget(active) ==
    /\ lastCall = NoCall
    /\ held.kind = "gadget"
    /\ lastCall' = [op |-> "write_held_gadget", gadget_id |-> held.ref,
                    active |-> active, at |-> clock]
    /\ gadgets' = [gadgets EXCEPT ![held.ref].active = active]
    /\ held' = [held EXCEPT !.seen.active = active]
    /\ UNCHANGED <<paused, gadget_nonce, shortcut_nonce, shortcuts,
                   gadget_ids_by_owner, shortcut_count_by_user,
                   efficiency_score, last_claim_time, total_fees_wei,
                   clock, ok_registers, ok_claims>>

\* the caller's ids.append(gadget_id) on the list it holds
WriteHeldList(gadget_id) ==
    /\ lastCall = NoCall
    /\ held.kind = "ids"
    /\ lastCall' = [op |-> "write_held_list", user |-> held.owner,
                    gadget_id |-> gadget_id, at |-> clock]
    /\ held' = [held EXCEPT !.list = Append(@, gadget_id)]
    /\ UNCHANGED <<engine, clock, ok_registers, ok_claims>>

\* SpecAlias: a caller that keeps what the engine returns, while the engine
\* goes on being used
AliasRegs == 1
AliasClaims == 1

NextAlias ==
    \/ \E owner \in Owners, payload \in Payloads, category \in Categories :
          /\ ok_registers < AliasRegs
          /\ TakeRegistered(owner, payload, category, HAX_FEE_WEI)
          /\ UNCHANGED <<refused, scenario, rl_claims, admitted>>
    \/ \E gadget_id \in 1 .. gadget_nonce + 1 :
          GetGadget(gadget_id) /\ UNCHANGED <<refused, scenario, rl_claims, admitted>>
    \/ \E owner \in Callers :
          /\ GetGadgetIdsByOwner(owner)
          /\ UNCHANGED <<refused, scenario, rl_claims, admitted>>
    \/ \E active \in BOOLEAN :
          WriteHeldGadget(active) /\ UNCHANGED <<refused, scenario, rl_claims, admitted>>
    \/ /\ held.kind = "ids"
       /\ Len(held.list) <= gadget_nonce
       /\ WriteHeldList(gadget_nonce + 1)
       /\ UNCHANGED <<refused, scenario, rl_claims, admitted>>
    \/ \E gadget_id \in 1 .. gadget_nonce, claimer \in Claimers :
          /\ ok_claims < AliasClaims \/ claim_error(gadget_id, claimer, clock) # "ok"
          /\ ClaimShortcut(gadget_id, claimer, 0)
          /\ UNCHANGED <<refused, scenario, caller>>
    \/ \E gadget_id \in 1 .. gadget_nonce, owner \in Callers,
          active \in BOOLEAN :
          /\ SetGadgetActive(gadget_id, owner, active)
          /\ UNCHANGED <<refused, scenario, caller>>
    \/ \E d \in TickSteps : Tick(d) /\ UNCHANGED <<refused, scenario, caller>>
    \/ Return

InitAlias == InitFor("alias")

SpecAlias == InitAlias /\ [][NextAlias]_vars

\* ------------------------------------------------------------------------
\* HaxRateLimiter
\* ------------------------------------------------------------------------
\* self._max, as the limiter was constructed
RateMax == 2

\* faulty variant of in_window: a call exactly window seconds old counts
in_window_inclusive(now, t) == now - t <= sec(60)

\* now - t < window, window = 60.0
in_window(now, t) == now - t < sec(60)

\* admitted is the history of the limiter: the times of all the calls of
\* the user that returned True
Allow(user) ==
    LET now  == clock
        kept == SelectSeq(Get(rl_claims, user, << >>),
                          LAMBDA t : in_window(now, t))
    IN  /\ lastCall = NoCall
        /\ IF Len(kept) >= RateMax
           THEN /\ rl_claims' = Put(rl_claims, user, kept)
                /\ lastCall' = [op |-> "allow", user |-> user, ret |-> FALSE,
                                at |-> now]
                /\ UNCHANGED admitted
           ELSE /\ rl_claims' = Put(rl_claims, user, Append(kept, now))
                /\ lastCall' = [op |-> "allow", user |-> user, ret |-> TRUE,
                                at |-> now]
                /\ admitted' = Put(admitted, user,
                                   Append(Get(admitted, user, << >>), now))
        /\ UNCHANGED <<engine, clock, ok_registers, ok_claims, held>>

\* SpecRate: two users asking the limiter, 20 seconds or more apart or at
\* the same time
RateCalls == 4

RateUsers == {"bob", "carol"}
RateTicks == {sec(20)}

NextRate ==
    \/ \E user \in RateUsers :
          /\ Len(Get(admitted, user, << >>)) < RateCalls
          /\ Allow(user)
          /\ UNCHANGED <<refused, scenario>>
    \/ \E d \in RateTicks : Tick(d) /\ UNCHANGED <<refused, scenario, caller>>
    \/ Return

InitRate == InitFor("rate")

SpecRate == InitRate /\ [][NextRate]_vars

\* ========================================================================
\* Properties
\* ========================================================================
\* a step that is a call of op
IsCall(op) == lastCall = NoCall /\ lastCall'.op = op

\* the number of gadgets owner o holds, active or not
Held(o) == Cardinality({g \in DOMAIN gadgets : gadgets[g].owner = o})

\* C1: the k-th successful register_gadget returns gadget id k; a failed
\* registration returns and consumes no id; the ids issued are exactly
\* 1..k, each once, whatever the gadgets' active flags.
C1_GadgetIdsSequential ==
    /\ gadget_nonce = ok_registers
    /\ DOMAIN gadgets = 1 .. ok_registers
    /\ \A g \in DOMAIN gadgets : gadgets[g].gadget_id = g
    /\ lastCall.op = "register_gadget" =>
          lastCall.ret = IF lastCall.error = "ok" THEN ok_registers ELSE 0

\* C1 witness: a second gadget was registered after the first was
\* deactivated, and got id 2.
C1_Witness ==
    /\ lastCall.op = "register_gadget"
    /\ lastCall.error = "ok"
    /\ lastCall.ret = 2
    /\ ~gadgets[1].active

\* C2: the k-th successful claim_shortcut returns shortcut id k whatever the
\* number of gadgets; each counter counts only its own operation's
\* successes; the shortcut ids are exactly 1..k, each once.
C2_ShortcutIdsIndependent ==
    /\ shortcut_nonce = ok_claims
    /\ gadget_nonce = ok_registers
    /\ DOMAIN shortcuts = 1 .. ok_claims
    /\ \A s \in DOMAIN shortcuts : shortcuts[s].shortcut_id = s
    /\ (lastCall.op = "claim_shortcut" /\ lastCall.error = "ok") =>
          lastCall.ret = ok_claims

\* C2 witness: the first claim got shortcut id 1 although two gadgets had
\* been registered before it.
C2_Witness ==
    /\ lastCall.op = "claim_shortcut"
    /\ lastCall.error = "ok"
    /\ lastCall.ret = 1
    /\ ok_registers = 2

\* C3: on a non-paused engine below the global cap, a register_gadget with a
\* sufficient fee succeeds when the owner holds fewer than 32 gadgets
\* (deactivated ones included) and fails with QuotaExceeded when the owner
\* holds 32; no owner ever holds more than 32.
C3_QuotaPerOwner ==
    /\ [](\A o \in QuotaOwners : Held(o) <= 32)
    /\ [][(/\ IsCall("register_gadget")
           /\ ~paused
           /\ ~WeiLess(lastCall'.fee_wei, HAX_FEE_WEI)
           /\ gadget_nonce < 2048)
          => lastCall'.error =
                IF Held(lastCall'.user) < 32 THEN "ok" ELSE "QuotaExceeded"]_vars

\* C3 witness: the owner holds 32 gadgets, one of them deactivated, another
\* owner holds one, and the owner's registration failed with QuotaExceeded.
C3_Witness ==
    /\ lastCall.op = "register_gadget"
    /\ lastCall.user = "alice"
    /\ lastCall.error = "QuotaExceeded"
    /\ Held("alice") = 32
    /\ Held("bob") = 1
    /\ ~gadgets[1].active

\* C4 as stated: once the counter is at 2048, every register_gadget with a
\* sufficient fee on a non-paused engine fails with InvalidGadgetId, for
\* every owner; the number of gadgets never exceeds 2048.
C4_AsStated ==
    /\ [](Cardinality(DOMAIN gadgets) <= 2048)
    /\ [][(/\ IsCall("register_gadget")
           /\ ~paused
           /\ ~WeiLess(lastCall'.fee_wei, HAX_FEE_WEI)
           /\ gadget_nonce >= 2048)
          => lastCall'.error = "InvalidGadgetId"]_vars

\* C4 amended: once the counter is at 2048, every register_gadget with a
\* sufficient fee on a non-paused engine fails: with QuotaExceeded for an
\* owner who holds 32 gadgets and with InvalidGadgetId for every other
\* owner; the number of gadgets never exceeds 2048.
C4_CapReached ==
    /\ [](Cardinality(DOMAIN gadgets) <= 2048 /\ gadget_nonce <= 2048)
    /\ [][(/\ IsCall("register_gadget")
           /\ ~paused
           /\ ~WeiLess(lastCall'.fee_wei, HAX_FEE_WEI)
           /\ gadget_nonce >= 2048)
          => /\ lastCall'.error =
                   IF Held(lastCall'.user) >= 32
                   THEN "QuotaExceeded" ELSE "InvalidGadgetId"
             /\ gadgets' = gadgets]_vars

\* C4 witness: the registry holds 2048 gadgets and a registration by an
\* owner who holds none failed with InvalidGadgetId.
C4_Witness ==
    /\ gadget_nonce = 2048
    /\ lastCall.op = "register_gadget"
    /\ lastCall.user = "zed"
    /\ lastCall.error = "InvalidGadgetId"

\* user u claimed before, and fewer than 60 seconds lie between that claim
\* and the time now
Cooling(u, now) ==
    u \in DOMAIN last_claim_time /\ now < last_claim_time[u] + sec(60)

\* user u claimed before, and at least 60 seconds lie between that claim
\* and the time now
Elapsed(u, now) ==
    u \in DOMAIN last_claim_time /\ now >= last_claim_time[u] + sec(60)

\* gadget g exists and is active
Claimable(g) == g \in DOMAIN gadgets /\ gadgets[g].active

\* a claim leaves the last-claim time of every user but the claimer as it was
OthersCooldownKept ==
    \A v \in (DOMAIN last_claim_time \cup DOMAIN last_claim_time')
             \ {lastCall'.user} :
        /\ v \in DOMAIN last_claim_time
        /\ v \in DOMAIN last_claim_time'
        /\ last_claim_time'[v] = last_claim_time[v]

\* C5 as stated: a claim by a user less than 60 seconds after that user's
\* last successful claim fails with ClaimTooSoon whichever gadget it
\* targets; one at least 60 seconds after it on an existing active gadget
\* of a non-paused engine succeeds; a claim never changes another user's
\* cooldown.
C5_AsStated ==
    [][IsCall("claim_shortcut") =>
        /\ Cooling(lastCall'.user, lastCall'.at) =>
              lastCall'.error = "ClaimTooSoon"
        /\ (/\ Elapsed(lastCall'.user, lastCall'.at)
            /\ Claimable(lastCall'.gadget_id)
            /\ ~paused) => lastCall'.error = "ok"
        /\ OthersCooldownKept]_vars

\* C5 amended: a claim by a user less than 60 seconds after that user's
\* last successful claim fails whichever gadget it targets, with
\* ClaimTooSoon when the engine is not paused and the target exists and is
\* active (otherwise with the error of the earlier check); one at least 60
\* seconds after it on an existing active gadget of a non-paused engine
\* succeeds; a claim never changes another user's cooldown.
C5_Cooldown ==
    [][IsCall("claim_shortcut") =>
        /\ Cooling(lastCall'.user, lastCall'.at) =>
              /\ lastCall'.error # "ok"
              /\ (~paused /\ Claimable(lastCall'.gadget_id)) =>
                    lastCall'.error = "ClaimTooSoon"
        /\ (/\ Elapsed(lastCall'.user, lastCall'.at)
            /\ Claimable(lastCall'.gadget_id)
            /\ ~paused) => lastCall'.error = "ok"
        /\ OthersCooldownKept]_vars

\* C5 witness: a user claimed gadget 1, then another user claimed, and the
\* first user's claim of gadget 2 failed with ClaimTooSoon.
C5_Witness ==
    /\ lastCall.op = "claim_shortcut"
    /\ lastCall.error = "ClaimTooSoon"
    /\ lastCall.gadget_id = 2
    /\ ok_claims = 2
    /\ shortcuts[1].claimer = lastCall.user
    /\ shortcuts[1].gadget_id = 1
    /\ shortcuts[2].claimer # lastCall.user

\* C6: a claim by a user who has no shortcut yet never fails with
\* ClaimTooSoon, at any clock value.
C6_NeverClaimedPasses ==
    [][(/\ IsCall("claim_shortcut")
        /\ \A s \in DOMAIN shortcuts : shortcuts[s].claimer # lastCall'.user)
       => lastCall'.error # "ClaimTooSoon"]_vars

\* an owner's set_gadget_active(id, owner, true) leaves the gadget active
ReactivationTakes ==
    (/\ IsCall("set_gadget_active")
     /\ lastCall'.gadget_id \in DOMAIN gadgets
     /\ lastCall'.user = gadgets[lastCall'.gadget_id].owner
     /\ lastCall'.active) => gadgets'[lastCall'.gadget_id].active

\* a claim on a gadget that was refused as inactive before and is active
\* again succeeds for a user whose cooldown has elapsed, engine not paused
ClaimAfterReactivation ==
    (/\ IsCall("claim_shortcut")
     /\ lastCall'.gadget_id \in refused
     /\ Claimable(lastCall'.gadget_id)
     /\ Elapsed(lastCall'.user, lastCall'.at)
     /\ ~paused) => lastCall'.error = "ok"

\* C7 as stated: a claim on an inactive gadget fails with GadgetInactive
\* and creates no shortcut; after the owner reactivated the gadget, a claim
\* on it by a user whose cooldown has elapsed succeeds on a non-paused
\* engine.
C7_AsStated ==
    /\ [][(/\ IsCall("claim_shortcut")
           /\ lastCall'.gadget_id \in DOMAIN gadgets
           /\ ~gadgets[lastCall'.gadget_id].active)
          => /\ lastCall'.error = "GadgetInactive"
             /\ shortcuts' = shortcuts]_vars
    /\ [][ReactivationTakes]_vars
    /\ [][ClaimAfterReactivation]_vars

\* C7 amended: a claim on an inactive gadget creates no shortcut and fails,
\* with GadgetInactive on a non-paused engine and with Paused on a paused
\* one; after the owner reactivated the gadget, a claim on it by a user
\* whose cooldown has elapsed succeeds on a non-paused engine.
C7_Reactivation ==
    /\ [][(/\ IsCall("claim_shortcut")
           /\ lastCall'.gadget_id \in DOMAIN gadgets
           /\ ~gadgets[lastCall'.gadget_id].active)
          => /\ lastCall'.error = IF paused THEN "Paused" ELSE "GadgetInactive"
             /\ shortcuts' = shortcuts
             /\ shortcut_nonce' = shortcut_nonce]_vars
    /\ [][ReactivationTakes]_vars
    /\ [][ClaimAfterReactivation]_vars

\* C7 witness: a claim on the gadget was refused as inactive, and a later
\* claim on it, by a user who had claimed before, succeeded.
C7_Witness ==
    /\ lastCall.op = "claim_shortcut"
    /\ lastCall.error = "ok"
    /\ lastCall.gadget_id \in refused
    /\ ok_claims = 2
    /\ shortcuts[1].claimer = lastCall.user

\* C8: set_gadget_active fails with InvalidGadgetId on an absent id and
\* with NotOperator for a caller who is not the owner, the flag unchanged;
\* for the owner it sets that gadget's flag to the given value; in every
\* case nothing else of the engine changes.
C8_SetGadgetActive ==
    [][IsCall("set_gadget_active") =>
        LET c == lastCall' IN
        /\ c.error =
              IF c.gadget_id \notin DOMAIN gadgets THEN "InvalidGadgetId"
              ELSE IF gadgets[c.gadget_id].owner # c.user THEN "NotOperator"
              ELSE "ok"
        /\ c.error # "ok" => gadgets' = gadgets
        /\ c.error = "ok" =>
              gadgets' = [gadgets EXCEPT ![c.gadget_id].active = c.active]
        /\ UNCHANGED <<paused, gadget_nonce, shortcut_nonce, shortcuts,
                       gadget_ids_by_owner, shortcut_count_by_user,
                       efficiency_score, last_claim_time, total_fees_wei>>
      ]_vars

\* C8 witness: the owner deactivated gadget 1, which had been claimed,
\* while gadget 2 stayed active; a call by another user was refused before.
C8_Witness ==
    /\ lastCall.op = "set_gadget_active"
    /\ lastCall.error = "ok"
    /\ lastCall.gadget_id = 1
    /\ ~lastCall.active
    /\ ~gadgets[1].active
    /\ gadgets[1].claim_count = 1
    /\ gadget_nonce = 2
    /\ gadgets[2].active

\* C9: a call of register_gadget, claim_shortcut or set_gadget_active that
\* raises leaves the whole engine state as it was.
C9_AllOrNothing ==
    [][(lastCall = NoCall /\ lastCall'.error # "ok")
       => UNCHANGED engine]_vars

\* C9 witness: fees were collected, claims were made, and a claim failed.
C9_Witness ==
    /\ lastCall.op = "claim_shortcut"
    /\ lastCall.error = "GadgetInactive"
    /\ ok_claims = 1
    /\ total_fees_wei # WeiZero

\* C10: while the engine is paused, every call of register_gadget,
\* claim_shortcut and set_gadget_active fails and leaves the gadgets, the
\* shortcuts, the counters and the fee total as they were.
C10_PausedHaltsMutation ==
    [][(paused /\ lastCall = NoCall /\ lastCall' # NoCall)
       => /\ lastCall'.error # "ok"
          /\ UNCHANGED <<gadget_nonce, shortcut_nonce, gadgets, shortcuts,
                         total_fees_wei>>]_vars

\* C11: a register_gadget call reports the error of the first violated
\* precondition in the order paused, fee below the minimum, owner at the
\* quota of 32, counter at the cap of 2048, and succeeds when none is
\* violated.
C11_RegisterErrorOrder ==
    [][IsCall("register_gadget") =>
        lastCall'.error =
            IF paused THEN "Paused"
            ELSE IF WeiLess(lastCall'.fee_wei, HAX_FEE_WEI) THEN "FeeRequired"
            ELSE IF Held(lastCall'.user) >= 32 THEN "QuotaExceeded"
            ELSE IF gadget_nonce >= 2048 THEN "InvalidGadgetId"
            ELSE "ok"]_vars

\* C11 witness: all four preconditions were violated at once (engine
\* paused, fee 0, owner holding 32 gadgets, 2048 gadgets registered) and the
\* call failed with Paused.
C11_Witness ==
    /\ lastCall.op = "register_gadget"
    /\ lastCall.error = "Paused"
    /\ paused
    /\ lastCall.fee_wei = WeiZero
    /\ Held(lastCall.user) = 32
    /\ gadget_nonce = 2048

\* C12: a claim_shortcut call fails with Paused on a paused engine; else
\* with InvalidGadgetId when the gadget is absent; else with GadgetInactive
\* when it is inactive; else with ClaimTooSoon when the claimer is inside
\* the cooldown. A claimer inside the cooldown who targets an absent or
\* inactive gadget therefore never gets ClaimTooSoon.
C12_ClaimErrorOrder ==
    [][IsCall("claim_shortcut") =>
        LET c == lastCall' IN
        /\ paused => c.error = "Paused"
        /\ (~paused /\ c.gadget_id \notin DOMAIN gadgets) =>
              c.error = "InvalidGadgetId"
        /\ (~paused /\ c.gadget_id \in DOMAIN gadgets
                    /\ ~gadgets[c.gadget_id].active) =>
              c.error = "GadgetInactive"
        /\ (~paused /\ Claimable(c.gadget_id) /\ Cooling(c.user, c.at)) =>
              c.error = "ClaimTooSoon"
        /\ (Cooling(c.user, c.at) /\ ~Claimable(c.gadget_id)) =>
              c.error \notin {"ClaimTooSoon", "ok"}
      ]_vars

\* C12 witness: a claimer inside the cooldown targeted an inactive gadget
\* and got GadgetInactive.
C12_Witness ==
    /\ lastCall.op = "claim_shortcut"
    /\ lastCall.error = "GadgetInactive"
    /\ Cooling(lastCall.user, lastCall.at)

\* a well-formed non-negative amount
WeiNonNeg(a) ==
    /\ \A i \in 1 .. Len(a) : a[i] \in 0 .. 9999
    /\ a # << >> => a[Len(a)] # 0

\* C13: the operator share of a total is floor(total * 80 / 10000), the
\* treasury share is the total minus it, both are non-negative and they add
\* up to the total.
C13_FeeSplit ==
    lastCall.op = "fee_split" =>
        LET t == lastCall.total_wei
            o == lastCall.operator_fee
            r == lastCall.treasury
        IN  /\ WeiNonNeg(o)
            /\ WeiNonNeg(r)
            /\ ~WeiLess(WeiMulSmall(t, 80), WeiMulSmall(o, 10000))
            /\ WeiLess(WeiMulSmall(t, 80), WeiMulSmall(WeiAdd(o, <<1>>), 10000))
            /\ Len(t) <= 1 => o = WeiOf(((IF t = << >> THEN 0 ELSE t[1]) * 80) \div 10000)
            /\ WeiAdd(o, r) = t
            /\ ~WeiLess(t, o) /\ r = WeiSub(t, o)

\* C13 witness: the minimum fee 2000000000000000 splits into
\* 16000000000000 and 1984000000000000.
C13_Witness ==
    /\ lastCall.op = "fee_split"
    /\ lastCall.total_wei = <<0, 0, 0, 2000>>
    /\ lastCall.operator_fee = <<0, 0, 0, 16>>
    /\ lastCall.treasury = <<0, 0, 0, 1984>>

\* the position of a tier in the order BRONZE < ... < LEGEND, 0 for
\* anything that is no tier
TierRank(t) ==
    CASE t = "BRONZE" -> 1 [] t = "SILVER" -> 2 [] t = "GOLD" -> 3
      [] t = "PLATINUM" -> 4 [] t = "LEGEND" -> 5 [] OTHER -> 0

\* C14: from_score maps a score of 0..99 to BRONZE, 100..499 to SILVER,
\* 500..1999 to GOLD, 2000..9999 to PLATINUM and 10000 or more to LEGEND,
\* and no smaller score gets a higher tier.
C14_TierOfScore ==
    lastCall.op = "from_score" =>
        /\ lastCall.tier =
              IF lastCall.score <= 99 THEN "BRONZE"
              ELSE IF lastCall.score <= 499 THEN "SILVER"
              ELSE IF lastCall.score <= 1999 THEN "GOLD"
              ELSE IF lastCall.score <= 9999 THEN "PLATINUM"
              ELSE "LEGEND"
        /\ \A n \in ScoreInputs :
              n <= lastCall.score =>
                  /\ TierRank(from_score(n)) >= 1
                  /\ TierRank(from_score(n)) <= TierRank(lastCall.tier)

\* C14 witness: a score above the coded upper bound 10^9 was mapped to
\* LEGEND.
C14_Witness ==
    /\ lastCall.op = "from_score"
    /\ lastCall.score > 1000000000
    /\ lastCall.tier = "LEGEND"

\* user u owns no gadget and claimed no shortcut
NeverSeen(u) ==
    /\ \A g \in DOMAIN gadgets : gadgets[g].owner # u
    /\ \A c \in DOMAIN shortcuts : shortcuts[c].claimer # u

\* C15: get_user_stats for a user who owns no gadget and claimed no
\* shortcut returns gadget count 0, shortcut count 0, score 0, last claim
\* time 0 and tier BRONZE, and changes nothing.
C15_NeverSeenUserStats ==
    [][(IsCall("get_user_stats") /\ NeverSeen(lastCall'.user)) =>
        /\ lastCall'.ret =
              [user |-> lastCall'.user, gadget_count |-> 0,
               shortcut_count |-> 0, efficiency_score |-> 0,
               tier |-> "BRONZE", last_claim_at |-> 0]
        /\ UNCHANGED engine]_vars

\* C15 witness: other users registered gadgets and claimed, the clock has
\* advanced, and the stats of a user who did neither are all zero.
C15_Witness ==
    /\ lastCall.op = "get_user_stats"
    /\ NeverSeen(lastCall.user)
    /\ lastCall.ret.tier = "BRONZE"
    /\ lastCall.ret.gadget_count = 0
    /\ ok_registers = 2
    /\ ok_claims >= 1

\* the shortcuts user u claimed
ShortcutsOf(u) == {c \in DOMAIN shortcuts : shortcuts[c].claimer = u}

\* the sum of score_added over the shortcuts in S
RECURSIVE SumScoreAdded(_)
SumScoreAdded(S) ==
    IF S = {} THEN 0
    ELSE LET c == CHOOSE c \in S : TRUE
         IN  shortcuts[c].score_added + SumScoreAdded(S \ {c})

\* C16: every shortcut's score_added is 10 plus the whole second of its
\* claim modulo 5, so 10..14; every user's efficiency score is the sum of
\* score_added over that user's shortcuts; a user with one shortcut is in
\* tier BRONZE; no score ever decreases.
C16_ScoreIsSumOfClaims ==
    /\ [](/\ \A c \in DOMAIN shortcuts :
               /\ shortcuts[c].score_added =
                     10 + ((shortcuts[c].claimed_at \div TicksPerSec) % 5)
               /\ shortcuts[c].score_added \in 10 .. 14
          /\ \A u \in StatUsers \cup DOMAIN efficiency_score :
               /\ Get(efficiency_score, u, 0) = SumScoreAdded(ShortcutsOf(u))
               /\ Cardinality(ShortcutsOf(u)) = 1 =>
                     HaxUserStats_of(u).tier = "BRONZE")
    /\ [][\A u \in DOMAIN efficiency_score :
             /\ u \in DOMAIN efficiency_score'
             /\ efficiency_score'[u] >= efficiency_score[u]]_vars

\* C16 witness: one user claimed twice, once at a fractional second, with
\* different score_added, and the score is their sum.
C16_Witness ==
    /\ ok_claims = 2
    /\ shortcuts[1].claimer = shortcuts[2].claimer
    /\ shortcuts[1].score_added # shortcuts[2].score_added
    /\ \E c \in 1 .. 2 : shortcuts[c].claimed_at % TicksPerSec # 0
    /\ efficiency_score[shortcuts[1].claimer] =
          shortcuts[1].score_added + shortcuts[2].score_added

\* C19: a claim refused with ClaimTooSoon at time now, for a claimer whose
\* last claim was at time last, carries last + 60 - now as the number of
\* seconds to wait.
C19_WaitIsRemainingTime ==
    [][(/\ IsCall("claim_shortcut")
        /\ lastCall'.error = "ClaimTooSoon"
        /\ lastCall'.user \in DOMAIN last_claim_time)
       => sec(lastCall'.wait_sec) =
             last_claim_time[lastCall'.user] + sec(60) - lastCall'.at]_vars

\* the users the leaderboard is about: owners of gadgets and claimers of
\* shortcuts
Ranked ==
    {gadgets[g].owner : g \in DOMAIN gadgets}
    \cup {shortcuts[c].claimer : c \in DOMAIN shortcuts}

\* C20: top_users_by_score(limit) with limit >= 0 returns min(limit, number
\* of ranked users) entries, each a ranked user with the sum of that user's
\* score_added (0 without claims), no user twice, in non-increasing order
\* of score, no omitted user scoring more than a listed one; the engine
\* state is unchanged.
C20_TopUsersByScore ==
    [][(IsCall("top_users_by_score") /\ lastCall'.limit >= 0) =>
        LET r == lastCall'.ret
            n == Cardinality(Ranked)
        IN  /\ Len(r) = IF lastCall'.limit < n THEN lastCall'.limit ELSE n
            /\ \A i \in 1 .. Len(r) :
                  /\ r[i][1] \in Ranked
                  /\ r[i][2] = SumScoreAdded(ShortcutsOf(r[i][1]))
            /\ \A i, j \in 1 .. Len(r) :
                  i < j => (r[i][1] # r[j][1] /\ r[i][2] >= r[j][2])
            /\ \A u \in Ranked \ {r[i][1] : i \in 1 .. Len(r)} :
                  \A i \in 1 .. Len(r) :
                      r[i][2] >= SumScoreAdded(ShortcutsOf(u))
            /\ UNCHANGED engine]_vars

\* C20 witness: three users are ranked, one of them an owner without
\* claims and one both owner and claimer; a query with limit 2 returned the
\* two claimers, the higher score first.
C20_Witness ==
    /\ lastCall.op = "top_users_by_score"
    /\ lastCall.limit = 2
    /\ Cardinality(Ranked) = 3
    /\ Len(lastCall.ret) = 2
    /\ lastCall.ret[1][2] > lastCall.ret[2][2]
    /\ lastCall.ret[2][2] > 0
    /\ \E g \in DOMAIN gadgets :
          gadgets[g].owner \in {lastCall.ret[1][1], lastCall.ret[2][1]}

\* C17: every step keeps every gadget, with its id, owner, hash, category
\* and registration time; a gadget's active flag changes only in a
\* set_gadget_active call on it, and its claim_count only in a
\* claim_shortcut call on it, by exactly 1.
C17_GadgetImmutable ==
    [][\A g \in DOMAIN gadgets :
          /\ g \in DOMAIN gadgets'
          /\ gadgets'[g].gadget_id = gadgets[g].gadget_id
          /\ gadgets'[g].owner = gadgets[g].owner
          /\ gadgets'[g].gadget_hash = gadgets[g].gadget_hash
          /\ gadgets'[g].category = gadgets[g].category
          /\ gadgets'[g].registered_at = gadgets[g].registered_at
          /\ gadgets'[g].active # gadgets[g].active =>
                (IsCall("set_gadget_active") /\ lastCall'.gadget_id = g)
          /\ gadgets'[g].claim_count # gadgets[g].claim_count =>
                /\ IsCall("claim_shortcut")
                /\ lastCall'.gadget_id = g
                /\ gadgets'[g].claim_count = gadgets[g].claim_count + 1
      ]_vars

\* C17 witness: gadget 1, registered at time 0, was claimed, deactivated
\* and reactivated at a later time while a second gadget was registered.
C17_Witness ==
    /\ lastCall.op = "set_gadget_active"
    /\ lastCall.error = "ok"
    /\ lastCall.gadget_id = 1
    /\ lastCall.active
    /\ gadget_nonce = 2
    /\ gadgets[1].registered_at = 0
    /\ gadgets[1].claim_count >= 1
    /\ clock > 0

\* C18: the fee total is 0 before the first registration; a successful
\* register_gadget raises it by exactly the fee submitted and every other
\* step leaves it as it is; so it is never less than 2000000000000000 times
\* the number of gadgets.
C18_FeeTotal ==
    /\ [](/\ ok_registers = 0 => total_fees_wei = << >>
          /\ WeiNonNeg(total_fees_wei)
          /\ ~WeiLess(total_fees_wei,
                      WeiMulSmall(<<0, 0, 0, 2000>>, Cardinality(DOMAIN gadgets))))
    /\ [][IF IsCall("register_gadget") /\ lastCall'.error = "ok"
          THEN /\ ~WeiLess(total_fees_wei', total_fees_wei)
               /\ WeiSub(total_fees_wei', total_fees_wei) = lastCall'.fee_wei
          ELSE total_fees_wei' = total_fees_wei]_vars

\* C18 witness: three registrations succeeded, with the minimum fee and
\* with a larger one, a claim was made, and the total 20000000000000002
\* is above three times the minimum.
C18_Witness ==
    /\ ok_registers = 3
    /\ ok_claims = 1
    /\ lastCall.op = "register_gadget"
    /\ lastCall.error = "ok"
    /\ total_fees_wei = <<2, 0, 0, 0, 2>>

\* the sum of f[x] over the x in S
RECURSIVE SumOver(_, _)
SumOver(f, S) ==
    IF S = {} THEN 0
    ELSE LET x == CHOOSE x \in S : TRUE IN f[x] + SumOver(f, S \ {x})

\* C26: each gadget's claim_count is the number of shortcuts on it, each
\* user's shortcut count the number of shortcuts that user claimed; the sum
\* of the claim counts, the sum of the shortcut counts, the number of
\* shortcuts and the shortcut counter are equal; every shortcut is on an
\* existing gadget.
C26_ClaimCountsAgree ==
    /\ \A g \in DOMAIN gadgets :
          gadgets[g].claim_count =
             Cardinality({c \in DOMAIN shortcuts : shortcuts[c].gadget_id = g})
    /\ \A u \in Claimers \cup DOMAIN shortcut_count_by_user :
          Get(shortcut_count_by_user, u, 0) = Cardinality(ShortcutsOf(u))
    /\ SumOver([g \in DOMAIN gadgets |-> gadgets[g].claim_count], DOMAIN gadgets)
          = shortcut_nonce
    /\ SumOver(shortcut_count_by_user, DOMAIN shortcut_count_by_user)
          = shortcut_nonce
    /\ Cardinality(DOMAIN shortcuts) = shortcut_nonce
    /\ \A c \in DOMAIN shortcuts : shortcuts[c].gadget_id \in DOMAIN gadgets

\* C26 witness: two users claimed, one gadget each, and the gadget claimed
\* first was deactivated and reactivated afterwards.
C26_Witness ==
    /\ shortcut_nonce = 2
    /\ shortcuts[1].gadget_id # shortcuts[2].gadget_id
    /\ shortcuts[1].claimer # shortcuts[2].claimer
    /\ lastCall.op = "set_gadget_active"
    /\ lastCall.error = "ok"
    /\ lastCall.active
    /\ lastCall.gadget_id = shortcuts[1].gadget_id

\* C27: gadget g is in owner o's list exactly when g exists with owner o;
\* every gadget id is once in the whole index; every list is strictly
\* increasing; the lengths sum to the gadget counter; the gadget ids are
\* exactly 1..counter.
C27_OwnerIndexAgrees ==
    LET idx == gadget_ids_by_owner IN
    /\ \A o \in DOMAIN idx : \A i \in 1 .. Len(idx[o]) :
          idx[o][i] \in DOMAIN gadgets /\ gadgets[idx[o][i]].owner = o
    /\ \A g \in DOMAIN gadgets :
          /\ gadgets[g].owner \in DOMAIN idx
          /\ Cardinality({<<o, i>> \in UNION {{o} \X (1 .. Len(idx[o])) : o \in DOMAIN idx} :
                             idx[o][i] = g}) = 1
    /\ \A o \in DOMAIN idx : \A i, j \in 1 .. Len(idx[o]) :
          i < j => idx[o][i] < idx[o][j]
    /\ SumOver([o \in DOMAIN idx |-> Len(idx[o])], DOMAIN idx) = gadget_nonce
    /\ DOMAIN gadgets = 1 .. gadget_nonce

\* C27 witness: two owners registered in turn: the second owner's one
\* gadget lies between two of the first owner's.
C27_Witness ==
    /\ "alice" \in DOMAIN gadget_ids_by_owner
    /\ "bob" \in DOMAIN gadget_ids_by_owner
    /\ gadget_ids_by_owner["bob"] = <<2>>
    /\ Len(gadget_ids_by_owner["alice"]) = 3

\* the reason can_claim gives for the error claim_shortcut raises
ReasonOf(error) ==
    CASE error = "InvalidGadgetId" -> "invalid_gadget_id"
      [] error = "GadgetInactive"  -> "gadget_inactive"
      [] error = "ClaimTooSoon"    -> "claim_too_soon"
      [] error = "ok"              -> "ok"
      [] OTHER                     -> "paused"

\* C28: can_claim agrees with claim_shortcut evaluated in the same state at
\* the same time: it returns (True, "ok") exactly when the claim would
\* succeed, otherwise the reason matching the error the claim would raise;
\* it never changes engine state.
C28_CanClaimAgrees ==
    [][IsCall("can_claim") =>
          LET err == claim_error(lastCall'.gadget_id, lastCall'.user, clock)
          IN  /\ lastCall'.ret[1] = (err = "ok")
              /\ lastCall'.ret[2] = ReasonOf(err)
              /\ UNCHANGED engine]_vars

\* the exported records say: there are as many as the limit allows, and
\* they are the shortcuts with the highest ids, in creation order
MostRecent(ids, N) ==
    LET n == IF N < shortcut_nonce THEN N ELSE shortcut_nonce
    IN  /\ Len(ids) = n
        /\ Len(ids) <= N
        /\ \A i \in 1 .. Len(ids) : ids[i] = shortcut_nonce - n + i

\* C22: for every limit N >= 0 the shortcut export (JSON and CSV) contains
\* at most N records, the N most recently created shortcuts in creation
\* order, all of them when fewer than N exist; the export removes no
\* shortcut from the engine.
C22_ExportMostRecent ==
    [][/\ IsCall("export_shortcuts") =>
            /\ MostRecent([i \in 1 .. Len(lastCall'.ret) |->
                              lastCall'.ret[i].shortcut_id], lastCall'.limit)
            /\ \A i \in 1 .. Len(lastCall'.ret) :
                  lastCall'.ret[i] = shortcuts[lastCall'.ret[i].shortcut_id]
            /\ shortcuts' = shortcuts
       /\ IsCall("export_csv_shortcuts") =>
            /\ MostRecent([i \in 1 .. Len(lastCall'.ret) - 1 |->
                              lastCall'.ret[i + 1][1]], lastCall'.limit)
            /\ shortcuts' = shortcuts]_vars

\* C25: two registrations differing in payload or in id never produce the
\* same hash input, hence no two gadgets of one engine share a content hash.
C25_HashInputsDiffer ==
    \A g1 \in DOMAIN gadgets, g2 \in DOMAIN gadgets :
        g1 # g2 => gadgets[g1].gadget_hash # gadgets[g2].gadget_hash

\* an import entry with a hash and a category the engine knows
WellFormed(g) ==
    /\ "gadget_hash" \in DOMAIN g
    /\ "category" \in DOMAIN g
    /\ g.category \in {"keyboard", "automation", "snippet", "workflow", "macro"}

\* C21: on a fresh non-paused engine, the import of well-formed entries
\* registers one gadget per entry under the entry's owner ("imported" when
\* the owner is absent) and returns the number of gadgets it registered,
\* which is then the engine's total gadget count.
C21_ImportRegistersAll ==
    [][(/\ IsCall("import_gadgets_json")
        /\ ~paused
        /\ gadget_nonce = 0
        /\ \A i \in 1 .. Len(lastCall'.items) : WellFormed(lastCall'.items[i]))
       => /\ lastCall'.ret = Len(lastCall'.items)
          /\ Cardinality(DOMAIN gadgets') = lastCall'.ret
          /\ \A i \in 1 .. Len(lastCall'.items) :
                /\ i \in DOMAIN gadgets'
                /\ gadgets'[i].owner =
                       IF "owner" \in DOMAIN lastCall'.items[i]
                       THEN lastCall'.items[i].owner ELSE "imported"]_vars

\* the positions of the items of a batch that succeeded, in input order
OkTurns(errors) ==
    SelectSeq([i \in 1 .. Len(errors) |-> i], LAMBDA i : errors[i] = "ok")

\* the number of registrations owner o can still make
RoomFor(o) ==
    LET quota == 32 - Held(o)
        cap   == 2048 - gadget_nonce
    IN  IF paused THEN 0 ELSE IF quota < cap THEN quota ELSE cap

\* what register_batch does: every payload is tried, the first n succeed,
\* n being the room the owner has; the result is their gadgets in input
\* order, and the engine holds these and nothing else new
RegisterBatchIsolated ==
    IsCall("register_batch") =>
        LET ps  == lastCall'.items
            ret == lastCall'.ret
            n   == IF Len(ps) < RoomFor(lastCall'.user)
                   THEN Len(ps) ELSE RoomFor(lastCall'.user)
        IN  /\ lastCall'.error = "ok"
            /\ Len(lastCall'.errors) = Len(ps)
            /\ \A k \in 1 .. Len(ps) : (lastCall'.errors[k] = "ok") <=> (k <= n)
            /\ Len(ret) = n
            /\ \A k \in 1 .. n :
                  /\ ret[k].gadget_id = gadget_nonce + k
                  /\ ret[k].owner = lastCall'.user
                  /\ ret[k].gadget_hash =
                        <<"HAX_DOMAIN_SEED", "|">> \o ps[k] \o str(gadget_nonce + k)
                  /\ gadgets'[gadget_nonce + k] = ret[k]
            /\ gadget_nonce' = gadget_nonce + n
            /\ DOMAIN gadgets' = DOMAIN gadgets \cup (gadget_nonce + 1 .. gadget_nonce + n)
            /\ \A g \in DOMAIN gadgets : gadgets'[g] = gadgets[g]
            /\ WeiNorm(total_fees_wei') =
                   WeiNorm(WeiAdd(total_fees_wei, WeiMulSmall(<<0, 0, 0, 2000>>, n)))
            /\ UNCHANGED <<paused, shortcut_nonce, shortcuts,
                           shortcut_count_by_user, efficiency_score,
                           last_claim_time>>

\* what claim_batch does: every id is tried; an id is refused only for a
\* reason a single claim is refused for; the result is the shortcuts of the
\* ids that succeeded in input order, and the engine holds these and
\* nothing else new
ClaimBatchIsolated ==
    IsCall("claim_batch") =>
        LET ids  == lastCall'.items
            ret  == lastCall'.ret
            c    == lastCall'.user
            won  == OkTurns(lastCall'.errors)
        IN  /\ lastCall'.error = "ok"
            /\ Len(lastCall'.errors) = Len(ids)
            /\ \A i \in 1 .. Len(ids) :
                  lastCall'.errors[i] # "ok" =>
                      \/ paused
                      \/ ids[i] \notin DOMAIN gadgets
                      \/ ~gadgets[ids[i]].active
                      \/ clock < Get(last_claim_time, c, 0) + 60 * TicksPerSec
                      \/ \E j \in 1 .. i - 1 : lastCall'.errors[j] = "ok"
            /\ Len(ret) = Len(won)
            /\ \A k \in 1 .. Len(ret) :
                  /\ ret[k].gadget_id = ids[won[k]]
                  /\ ret[k].claimer = c
                  /\ ret[k].shortcut_id = shortcut_nonce + k
                  /\ shortcuts'[shortcut_nonce + k] = ret[k]
            /\ shortcut_nonce' = shortcut_nonce + Len(ret)
            /\ DOMAIN shortcuts' =
                   DOMAIN shortcuts \cup (shortcut_nonce + 1 .. shortcut_nonce + Len(ret))
            /\ \A s \in DOMAIN shortcuts : shortcuts'[s] = shortcuts[s]
            /\ DOMAIN gadgets' = DOMAIN gadgets
            /\ \A g \in DOMAIN gadgets :
                  gadgets'[g] =
                      [gadgets[g] EXCEPT !.claim_count =
                          @ + Cardinality({k \in 1 .. Len(ret) : ret[k].gadget_id = g})]
            /\ Get(shortcut_count_by_user', c, 0) =
                   Get(shortcut_count_by_user, c, 0) + Len(ret)
            /\ (Len(ret) = 0) =>
                   UNCHANGED <<shortcut_count_by_user, efficiency_score,
                               last_claim_time>>
            /\ UNCHANGED <<paused, gadget_nonce, gadget_ids_by_owner,
                           total_fees_wei>>

\* C23: register_batch and claim_batch attempt every item in order; an item
\* that fails does not stop the items after it, changes no engine state and
\* is absent from the result; the result holds exactly the records of the
\* items that succeeded, in input order, and nothing is raised (40 payloads
\* for a fresh owner give 32 gadgets).
C23_BatchIsolation == [][RegisterBatchIsolated /\ ClaimBatchIsolated]_vars

\* register_batch of 40 or more payloads has returned 32 gadgets, the last
\* payloads having been tried and refused
C23_Witness ==
    /\ lastCall.op = "register_batch"
    /\ Len(lastCall.items) >= 40
    /\ Len(lastCall.ret) = 32
    /\ lastCall.errors[Len(lastCall.items)] = "QuotaExceeded"

\* C29: a claim_batch that runs in less than 60 seconds creates at most one
\* shortcut: once an item has succeeded, every later item on an existing
\* active gadget fails with ClaimTooSoon and is not in the result.
C29_OnePerBatch ==
    [][(IsCall("claim_batch") /\ clock' - clock < 60 * TicksPerSec) =>
          /\ Len(lastCall'.ret) <= 1
          /\ \A i \in 1 .. Len(lastCall'.items), j \in 1 .. Len(lastCall'.items) :
                (/\ i < j
                 /\ lastCall'.errors[i] = "ok"
                 /\ lastCall'.items[j] \in DOMAIN gadgets
                 /\ gadgets[lastCall'.items[j]].active)
                => lastCall'.errors[j] = "ClaimTooSoon"]_vars

\* a batch of under a minute whose first id was claimed and whose later
\* ids, though claimable by themselves, were refused as too soon
C29_Witness ==
    /\ lastCall.op = "claim_batch"
    /\ clock - lastCall.at < 60 * TicksPerSec
    /\ Len(lastCall.items) = 3
    /\ lastCall.errors = <<"ok", "ClaimTooSoon", "ClaimTooSoon">>
    /\ Len(lastCall.ret) = 1

\* C24: values handed out by the engine are snapshots or copies: a gadget
\* returned by register_gadget or get_gadget keeps the claim_count and the
\* active flag it had when returned, whatever claim_shortcut and
\* set_gadget_active do later; the caller changing it does not change the
\* engine's record; changing the list returned by get_gadget_ids_by_owner
\* does not change the owner index.
C24_NoAliasing ==
    [][/\ held'.kind = "gadget" =>
             /\ HeldGadget'.claim_count = held'.seen.claim_count
             /\ HeldGadget'.active = held'.seen.active
       /\ IsCall("write_held_gadget") => gadgets' = gadgets
       /\ IsCall("write_held_list") =>
             gadget_ids_by_owner' = gadget_ids_by_owner]_vars

\* the number of calls among times that are less than 60 seconds before now
RecentIn(times, now) ==
    Cardinality({i \in 1 .. Len(times) : now - times[i] < 60 * TicksPerSec})

\* C30: allow returns True exactly when fewer than max of the user's
\* previously admitted calls are less than 60 seconds old, so no user has
\* more than max admitted calls in any 60-second window; a rejected call
\* records nothing; one user's calls leave the other users' records alone.
C30_RateLimit ==
    [][IsCall("allow") =>
          LET u    == lastCall'.user
              prev == Get(admitted, u, << >>)
              now  == Get(admitted', u, << >>)
          IN  /\ lastCall'.ret = (RecentIn(prev, clock) < RateMax)
              /\ lastCall'.ret => now = Append(prev, clock)
              /\ ~lastCall'.ret =>
                    /\ now = prev
                    /\ Len(rl_claims'[u]) <= Len(Get(rl_claims, u, << >>))
                    /\ \A i \in 1 .. Len(rl_claims'[u]) :
                          \E j \in 1 .. Len(rl_claims[u]) :
                              rl_claims[u][j] = rl_claims'[u][i]
              /\ \A i \in 1 .. Len(now) :
                    Cardinality({j \in 1 .. i :
                        now[i] - now[j] < 60 * TicksPerSec}) <= RateMax
              /\ \A v \in RateUsers \ {u} :
                    /\ Get(rl_claims', v, << >>) = Get(rl_claims, v, << >>)
                    /\ Get(admitted', v, << >>) = Get(admitted, v, << >>)]_vars

\* a user has been refused with max admitted calls in the last minute,
\* after having been admitted again once earlier ones had aged out, while
\* the other user has an admitted call and room left
C30_Witness ==
    /\ lastCall.op = "allow"
    /\ ~lastCall.ret
    /\ Len(Get(admitted, lastCall.user, << >>)) > RateMax
    /\ \E v \in RateUsers \ {lastCall.user} :
          /\ Len(Get(admitted, v, << >>)) >= 1
          /\ RecentIn(Get(admitted, v, << >>), clock) < RateMax

====
